---------------------------- MODULE Spec2Model ----------------------------
(***************************************************************************)
(* RonPay payment engine.  The post-broadcast part:                        *)
(*                                                                         *)
(*   PaymentsService.recordTransaction   creates the record of a hash and  *)
(*       starts a detached monitor (a promise chain) for it;               *)
(*   the monitor                         waits for the receipt, sets the   *)
(*       status, verifies the transfer to the treasury and calls the       *)
(*       airtime vendor (NellobytesService.buyAirtime);                    *)
(*   PaymentsService.purchaseAirtime     the dedicated airtime entry point;*)
(*   PaymentsController.handleNellobytesCallback   the vendor's webhook;   *)
(*   CeloService.verifyERC20Transfer     the scan of a receipt's log.      *)
(*                                                                         *)
(* and the part before signing, PaymentsService.parsePaymentIntentDirect   *)
(* with buildTransferResponse and handleAirtimeIntent, which compose the   *)
(* unsigned transactions of a payment intent, and                          *)
(* RouteOptimizerService.findBestRoute over MentoService.getSwapQuote,     *)
(* which prices an airtime purchase; NellobytesService.buyAirtime as a     *)
(* function of its argument; the two entry points of composition side by   *)
(* side; and LimitsService.checkLimits and recordTransaction under         *)
(* concurrent requests.                                                    *)
(*                                                                         *)
(* TransactionsService.create is repository.create + save of an object     *)
(* without a primary key, which is an INSERT, and no uniqueness of txHash  *)
(* is assumed: the store is a sequence of rows, and update({txHash}, ...)  *)
(* changes every row that carries the hash.                                *)
(***************************************************************************)
EXTENDS Integers, Sequences, FiniteSets, TLC

(***************************************************************************)
(* Bounds of the model.                                                    *)
(***************************************************************************)
\* recordTransaction calls accepted over a run (one row and one monitor each)
MaxMonitors == 2
\* purchaseAirtime calls over a run
MaxPurchases == 1
\* vendor callbacks over a run
MaxCallbacks == 1
\* requests the engine receives over a run (recordTransaction,
\* purchaseAirtime and vendor callbacks together)
MaxRequests == 2
\* length of a receipt's log in the pure-function specification
MaxLogs == 2
\* wei per token unit, scaled down from 10^18 (parseUnits(x, 18))
WeiPerUnit == 10
\* the larger amount in given to findBestRoute in its specification
MaxAmountIn == 3

\* two transaction hashes, 0x and 64 hexadecimal digits each
H1 == "0x1111111111111111111111111111111111111111111111111111111111111aAa"
H2 == "0x2222222222222222222222222222222222222222222222222222222222222bBb"
Hashes == {H1, H2}
\* transaction hashes that fail /^0x[a-fA-F0-9]{64}$/: too short, with a
\* digit too few, with a letter that is no hexadecimal digit, and with the
\* prefix in capitals
BadHash == "bad"
BadHashes ==
    {BadHash,
     "0x111111111111111111111111111111111111111111111111111111111111aAa",
     "0x1111111111111111111111111111111111111111111111111111111111111aAg",
     "0X1111111111111111111111111111111111111111111111111111111111111aAa"}

(***************************************************************************)
(* Addresses and tokens.                                                   *)
(***************************************************************************)
\* process.env.RONPAY_TREASURY_ADDRESS, a checksummed (mixed-case) address
TreasuryAddress == "0xTreasury"

\* String.prototype.toLowerCase on the addresses of the model
toLowerCase(a) ==
    CASE a = "0xTreasury" -> "0xtreasury"
      [] a = "0XTREASURY" -> "0xtreasury"
      [] a = "0xOther"    -> "0xother"
      [] a = "0xPayer"    -> "0xpayer"
      [] a = "0xPAYER"    -> "0xpayer"
      [] a = "0xUSDm"     -> "0xusdm"
      [] a = "0xNGNm"     -> "0xngnm"
      [] OTHER            -> a

Tokens == {"USDm", "NGNm", "CELO"}

\* CELO_TOKENS: token symbol -> contract address ('native' for CELO)
CELO_TOKENS(token) ==
    CASE token = "USDm" -> "0xUSDm"
      [] token = "NGNm" -> "0xNGNm"
      [] token = "EURm" -> "0xEURm"
      [] token = "BRLm" -> "0xBRLm"
      [] token = "KESm" -> "0xKESm"
      [] OTHER          -> "native"

\* keccak of Transfer(address,address,uint256), and some other event
TransferTopic == "Transfer"
Topics == {"Transfer", "Approval"}

\* viem parseUnits(amount, 18)
parseUnits(amount) == amount * WeiPerUnit

(***************************************************************************)
(* CeloService.verifyERC20Transfer                                         *)
(* receipt: [status, logs]; a log: [address, topic0, to, value] where `to` *)
(* is topics[2] and value is BigInt(data).                                 *)
(***************************************************************************)
\* the filter of the receipt's logs: emitted by the token, Transfer topic
IsTransferLog(log, tokenAddress) ==
    /\ toLowerCase(log.address) = toLowerCase(tokenAddress)
    /\ log.topic0 = TransferTopic

\* LogMatches without the comparison of the value
LogMatches_AnyAmount(log, expectedTo, expectedAmountInWei) ==
    toLowerCase(log.to) = toLowerCase(expectedTo)

\* LogMatches with > in the place of >=
LogMatches_Strict(log, expectedTo, expectedAmountInWei) ==
    /\ toLowerCase(log.to) = toLowerCase(expectedTo)
    /\ log.value > expectedAmountInWei

\* the test inside the loop over the filtered logs
LogMatches(log, expectedTo, expectedAmountInWei) ==
    /\ toLowerCase(log.to) = toLowerCase(expectedTo)
    /\ log.value >= expectedAmountInWei

RECURSIVE ScanLogs(_, _, _, _)
ScanLogs(logs, tokenAddress, expectedTo, expectedAmountInWei) ==
    IF logs = << >> THEN FALSE
    ELSE IF /\ IsTransferLog(Head(logs), tokenAddress)
            /\ LogMatches(Head(logs), expectedTo, expectedAmountInWei)
         THEN TRUE
         ELSE ScanLogs(Tail(logs), tokenAddress, expectedTo, expectedAmountInWei)

verifyERC20Transfer(receipt, expectedTo, expectedAmount, token) ==
    IF receipt.status # "success" THEN FALSE
    ELSE ScanLogs(receipt.logs, CELO_TOKENS(token), expectedTo,
                  parseUnits(expectedAmount))

(***************************************************************************)
(* State.                                                                  *)
(***************************************************************************)
VARIABLES
    chain,        \* hash -> the receipt the chain holds for it (immutable)
    nodeEnv,      \* process.env.NODE_ENV
    rows,         \* the transactions table: a sequence of Transaction rows
    mon,          \* the monitors recordTransaction started; mon[i] was
                  \* started together with rows[i]
    vendorLog,    \* the calls NellobytesService.buyAirtime has received
    response,     \* what the last request handler returned or threw
    nRequests,    \* requests received so far
    nPurchases,   \* purchaseAirtime calls so far
    nCallbacks,   \* vendor callbacks so far
    vin,          \* pure-function specification: the input drawn
    vout          \* pure-function specification: the result computed

vars == <<chain, nodeEnv, rows, mon, vendorLog, response, nRequests,
          nPurchases, nCallbacks, vin, vout>>

Statuses == {"pending", "success", "failed", "success_delivered",
             "failed_verification", "failed_service_error"}

\* dto.metadata?.provider: "none" stands for a dto without metadata
Providers == {"none", "NELLOBYTES", "OTHERVENDOR"}

\* amounts a caller reports, in token units
DtoAmounts == {1, 2}

Log(address, topic0, to, value) ==
    [address |-> address, topic0 |-> topic0, to |-> to, value |-> value]

\* receipts of the state-machine specification: a reverted one that carries
\* a paying log, and a successful one that pays 1.5 units to the treasury
\* after a log of another token and a log to another destination: it covers
\* a reported amount of 1 unit and falls short of 2
Receipts ==
    { [status |-> "reverted",
       logs |-> << Log("0xusdm", "Transfer", "0xtreasury", 2 * WeiPerUnit) >>],
      [status |-> "success",
       logs |-> << Log("0xngnm", "Transfer", "0xtreasury", 3 * WeiPerUnit),
                   Log("0xusdm", "Transfer", "0xother", 3 * WeiPerUnit),
                   Log("0xusdm", "Transfer", "0xtreasury",
                       WeiPerUnit + (WeiPerUnit \div 2)) >>] }

\* the naira of one USDm at the rate the engine falls back to (also the
\* StaticRate of the composition), and buyAirtime's largest amount
NairaPerUnit == 1500
MaxAirtimeAmount == 200000

\* ExecutePaymentDto, the fields the monitor reads.  The amount is read only
\* when fulfilment is due, so the other records carry one amount;
\* originalAmountNgn is 0 where metadata.originalAmountNgn is missing.
Dto(txHash, toAddress, amount, provider, originalAmountNgn) ==
    [txHash |-> txHash, toAddress |-> toAddress, amount |-> amount,
     currency |-> "USDm", provider |-> provider,
     originalAmountNgn |-> originalAmountNgn]

\* the requests of the model: airtime purchases that report
\* what the receipt covers (one with the naira of the reported amount, one
\* without a naira amount), one that reports more than the receipt covers,
\* one that reports 1 USDm and asks for the largest airtime amount, one of
\* another vendor, the malformed hashes, a payment that is not to the
\* treasury and one without metadata
Dtos ==
    { Dto(H1, "0xTreasury", 1, "NELLOBYTES", NairaPerUnit),
      Dto(H2, "0xTreasury", 1, "NELLOBYTES", 0),
      Dto(H1, "0XTREASURY", 1, "NELLOBYTES", MaxAirtimeAmount),
      Dto(H2, "0xTreasury", 1, "OTHERVENDOR", NairaPerUnit) }
    \cup { Dto(h, "0xTreasury", 2, "NELLOBYTES", 2 * NairaPerUnit) :
             h \in Hashes }
    \cup { Dto(h, "0xTreasury", 1, "NELLOBYTES", NairaPerUnit) :
             h \in BadHashes }
    \cup { Dto(H1, "0xOther", 1, "NELLOBYTES", NairaPerUnit),
           Dto(H2, "0xTreasury", 1, "none", 0) }

NoInput == [status |-> "none"]

Init ==
    /\ chain \in [Hashes -> Receipts]
    /\ nodeEnv \in {"production", "development"}
    /\ rows = << >>
    /\ mon = << >>
    /\ vendorLog = {}
    /\ response = [op |-> "none", result |-> "none"]
    /\ nRequests = 0
    /\ nPurchases = 0
    /\ nCallbacks = 0
    /\ vin = NoInput
    /\ vout = "none"

(***************************************************************************)
(* TransactionsService                                                     *)
(***************************************************************************)
\* create: repository.create(data) then save, an INSERT of a new row
create(rs, data) == Append(rs, data)

\* updateStatus without the where clause
updateStatus_AnyHash(rs, txHash, status) ==
    [i \in DOMAIN rs |-> [rs[i] EXCEPT !.status = status]]

\* updateStatus: repository.update({ txHash }, { status }), unconditional
updateStatus(rs, txHash, status) ==
    [i \in DOMAIN rs |->
        IF rs[i].txHash = txHash THEN [rs[i] EXCEPT !.status = status]
        ELSE rs[i]]

\* findByTxHash: findOne({ where: { txHash } })
findByTxHash(rs, txHash) == \E i \in DOMAIN rs : rs[i].txHash = txHash

\* updateAirtimeCallback: returns when no row is found, else sets the status
\* and stores the callback in the metadata of every row of the hash
updateAirtimeCallback(rs, txHash, status) ==
    IF ~findByTxHash(rs, txHash) THEN rs
    ELSE [i \in DOMAIN rs |->
            IF rs[i].txHash = txHash
            THEN [rs[i] EXCEPT !.status = status, !.airtimeCallback = TRUE]
            ELSE rs[i]]

(***************************************************************************)
(* PaymentsService.recordTransaction                                       *)
(***************************************************************************)
\* [a-fA-F0-9]
HexDigits ==
    {"0", "1", "2", "3", "4", "5", "6", "7", "8", "9",
     "a", "b", "c", "d", "e", "f", "A", "B", "C", "D", "E", "F"}

\* ValidHash that tests the length and the prefix only
ValidHash_ShapeOnly(txHash) ==
    /\ Len(txHash) = 66
    /\ SubSeq(txHash, 1, 2) = "0x"

\* /^0x[a-fA-F0-9]{64}$/.test(dto.txHash)
ValidHash(txHash) ==
    /\ Len(txHash) = 66
    /\ SubSeq(txHash, 1, 2) = "0x"
    /\ \A i \in 3..66 : SubSeq(txHash, i, i) \in HexDigits

\* FulfilmentDue without the test of the provider
FulfilmentDue_AnyProvider(dto) ==
    toLowerCase(dto.toAddress) = toLowerCase(TreasuryAddress)

\* isToTreasury && dto.metadata && dto.metadata.provider === 'NELLOBYTES'
FulfilmentDue(dto) ==
    /\ toLowerCase(dto.toAddress) = toLowerCase(TreasuryAddress)
    /\ dto.provider = "NELLOBYTES"

\* recordTransaction that awaits the receipt before it answers: the first
\* step of the monitor runs inside the request, and a receipt that is not a
\* success is thrown to the caller
recordTransaction_AwaitsReceipt(dto) ==
    /\ nRequests < MaxRequests
    /\ nRequests' = nRequests + 1
    /\ ValidHash(dto.txHash)
    /\ Len(mon) < MaxMonitors
    /\ LET receipt == chain[dto.txHash]
           status == IF receipt.status = "success" THEN "success" ELSE "failed"
       IN  /\ rows' = create(rows,
                  [txHash |-> dto.txHash,
                   toAddress |-> toLowerCase(dto.toAddress),
                   amount |-> dto.amount,
                   currency |-> dto.currency,
                   provider |-> dto.provider,
                   status |-> status,
                   airtimeCallback |-> FALSE])
           /\ mon' = Append(mon,
                  [dto |-> dto, pc |-> "done", waitResult |-> receipt.status,
                   isVerified |-> "none", vendorResult |-> "none",
                   attempts |-> 0, wrote |-> << status >>])
           /\ response' = [op |-> "recordTransaction",
                           result |-> IF status = "success" THEN "recorded"
                                      ELSE "InternalServerError"]
    /\ UNCHANGED <<chain, nodeEnv, vendorLog, nPurchases, nCallbacks, vin,
                   vout>>

recordTransaction(dto) ==
    /\ nRequests < MaxRequests
    /\ nRequests' = nRequests + 1
    /\ IF ~ValidHash(dto.txHash)
       THEN /\ response' = [op |-> "recordTransaction",
                            result |-> "BadRequest"]
            /\ UNCHANGED <<rows, mon>>
       ELSE /\ Len(mon) < MaxMonitors
            /\ rows' = create(rows,
                   [txHash |-> dto.txHash,
                    toAddress |-> toLowerCase(dto.toAddress),
                    amount |-> dto.amount,
                    currency |-> dto.currency,
                    provider |-> dto.provider,
                    status |-> "pending",
                    airtimeCallback |-> FALSE])
            /\ mon' = Append(mon,
                   [dto |-> dto, pc |-> "wait", waitResult |-> "none",
                    isVerified |-> "none", vendorResult |-> "none",
                    attempts |-> 0, wrote |-> << >>])
            /\ response' = [op |-> "recordTransaction",
                            result |-> "recorded"]
    /\ UNCHANGED <<chain, nodeEnv, vendorLog, nPurchases, nCallbacks, vin,
                   vout>>

(***************************************************************************)
(* The monitor: the promise chain on waitForTransaction.  Every await is a *)
(* point where other monitors and handlers run; the steps below are the    *)
(* code between two awaits, with the store update each one issues.         *)
(***************************************************************************)
\* waitForTransaction: the receipt, or a rejection (the 60 s timeout, an RPC
\* error), whatever the chain holds
WaitOutcomes == {"receipt", "timeout"}

\* a call that returns or throws
CallOutcomes == {"returned", "threw"}

\* the outcomes of buyAirtime: it returns the vendor's answer, whose status
\* says the order was accepted or names an error, or it throws
VendorOutcomes == {"ORDER_RECEIVED", "INSUFFICIENT_BALANCE", "threw"}

\* StatusOfReceipt without the test of receipt.status
StatusOfReceipt_AlwaysSuccess(receipt) == "success"

\* the status the .then handler writes first, from receipt.status
StatusOfReceipt(receipt) ==
    IF receipt.status = "success" THEN "success" ELSE "failed"

\* the status the .catch handler writes
StatusOnError == "failed"

\* after `await verifyERC20Transfer`: !isVerified returns early
StatusOfVerification(isVerified) ==
    IF ~isVerified THEN "failed_verification" ELSE "invoke_vendor"

\* after buyAirtime: the end of the try block, or the catch block
StatusOfVendor(outcome) ==
    IF outcome # "threw" THEN "success_delivered"
    ELSE "failed_service_error"

\* sanitizeRequestId: an id of up to 30 characters as it is, else TX- and
\* the last 20 characters
sanitizeRequestId(requestId) ==
    IF Len(requestId) <= 30 THEN requestId
    ELSE "TX-" \o SubSeq(requestId, Len(requestId) - 19, Len(requestId))

\* amount: dto.metadata.originalAmountNgn || 100
AirtimeAmountOf(dto) ==
    IF dto.originalAmountNgn = 0 THEN 100 ELSE dto.originalAmountNgn

\* a call of buyAirtime: the caller (a monitor, or the n-th purchaseAirtime
\* request), which of the caller's calls it is, the request id it passes and
\* the value of isVerified the caller held ("skipped" when it held none)
VendorCall(via, who, attempt, txHash, amount, isVerified) ==
    [via |-> via, who |-> who, attempt |-> attempt, request_id |-> txHash,
     RequestID |-> sanitizeRequestId(txHash), amount |-> amount,
     verified |-> isVerified]

\* the monitor m writes a status and moves to pc
MonitorWrites(m, status, pc, field, value) ==
    /\ rows' = updateStatus(rows, mon[m].dto.txHash, status)
    /\ mon' = [mon EXCEPT ![m] = [@ EXCEPT !.pc = pc,
                                            ![field] = value,
                                            !.wrote = Append(@, status)]]

\* waitForTransaction settles: .then(receipt) up to the first await after
\* the status update, or .catch(error)
MonitorReceipt(m) ==
    /\ mon[m].pc = "wait"
    /\ \E outcome \in WaitOutcomes :
         IF outcome = "timeout"
         THEN MonitorWrites(m, StatusOnError, "done", "waitResult", "timeout")
         ELSE LET receipt == chain[mon[m].dto.txHash]
                  status == StatusOfReceipt(receipt)
              IN  MonitorWrites(m, status,
                      IF status = "success" /\ FulfilmentDue(mon[m].dto)
                      THEN "verify" ELSE "done",
                      "waitResult", receipt.status)
    /\ UNCHANGED <<chain, nodeEnv, vendorLog, response, nRequests,
                   nPurchases, nCallbacks, vin, vout>>

\* verifyERC20Transfer settles: it rejects (its own receipt fetch fails, the
\* chain's .catch runs), or it returns and the monitor either stops at
\* failed_verification or calls buyAirtime
MonitorVerify(m) ==
    /\ mon[m].pc = "verify"
    /\ \E outcome \in CallOutcomes :
         IF outcome = "threw"
         THEN /\ MonitorWrites(m, StatusOnError, "done", "isVerified", "threw")
              /\ UNCHANGED vendorLog
         ELSE LET dto == mon[m].dto
                  isVerified == verifyERC20Transfer(chain[dto.txHash],
                                    TreasuryAddress, dto.amount, dto.currency)
                  next == StatusOfVerification(isVerified)
              IN  IF next = "invoke_vendor"
                  THEN /\ vendorLog' = vendorLog \cup
                              {VendorCall("monitor", m, mon[m].attempts + 1,
                                          dto.txHash, AirtimeAmountOf(dto),
                                          IF isVerified THEN "true"
                                          ELSE "false")}
                       /\ mon' = [mon EXCEPT ![m] =
                              [@ EXCEPT !.pc = "vendor",
                                        !.isVerified = "true",
                                        !.attempts = @ + 1]]
                       /\ UNCHANGED rows
                  ELSE /\ MonitorWrites(m, next, "done", "isVerified", "false")
                       /\ UNCHANGED vendorLog
    /\ UNCHANGED <<chain, nodeEnv, response, nRequests, nPurchases,
                   nCallbacks, vin, vout>>

\* MonitorVendor with a retry: when buyAirtime throws, call it once more
MonitorVendor_Retry(m) ==
    /\ mon[m].pc = "vendor"
    /\ \E outcome \in VendorOutcomes :
         IF outcome = "threw" /\ mon[m].attempts < 2
         THEN /\ vendorLog' = vendorLog \cup
                     {VendorCall("monitor", m, mon[m].attempts + 1,
                                 mon[m].dto.txHash,
                                 AirtimeAmountOf(mon[m].dto), "true")}
              /\ mon' = [mon EXCEPT ![m].attempts = @ + 1]
              /\ UNCHANGED rows
         ELSE /\ MonitorWrites(m, StatusOfVendor(outcome), "done",
                               "vendorResult", outcome)
              /\ UNCHANGED vendorLog
    /\ UNCHANGED <<chain, nodeEnv, response, nRequests, nPurchases,
                   nCallbacks, vin, vout>>

\* buyAirtime settles
MonitorVendor(m) ==
    /\ mon[m].pc = "vendor"
    /\ \E outcome \in VendorOutcomes :
         MonitorWrites(m, StatusOfVendor(outcome), "done", "vendorResult",
                       outcome)
    /\ UNCHANGED <<chain, nodeEnv, vendorLog, response, nRequests,
                   nPurchases, nCallbacks, vin, vout>>

(***************************************************************************)
(* PaymentsService.purchaseAirtime.  It reads the chain and calls the      *)
(* vendor; it neither reads nor writes the store, so its awaits are not    *)
(* interleaving points for anything the model observes and the handler is  *)
(* one step.                                                               *)
(***************************************************************************)
\* SkipVerification without the isDev conjunct
SkipVerification_IgnoresEnv(env, skipFlag) == skipFlag = TRUE

\* isDev && dto.skipVerification === true
SkipVerification(env, skipFlag) == env # "production" /\ skipFlag = TRUE

\* what purchaseAirtime answers after buyAirtime: delivered when the
\* vendor's status is ORDER_COMPLETED or ORDER_RECEIVED, pending for any
\* other status, an error when buyAirtime threw
purchaseStatus(outcome) ==
    IF outcome = "threw" THEN "InternalServerError"
    ELSE IF outcome \in {"ORDER_COMPLETED", "ORDER_RECEIVED"} THEN "delivered"
    ELSE "pending"

\* expectedUsdm is the amount the Mento quote (or the fallback rate) gives
\* for dto.amount
purchaseAirtime(txHash, expectedUsdm, skipFlag, outcome) ==
    /\ nRequests < MaxRequests
    /\ nRequests' = nRequests + 1
    /\ nPurchases < MaxPurchases
    /\ nPurchases' = nPurchases + 1
    /\ LET skip == SkipVerification(nodeEnv, skipFlag)
           isVerified == verifyERC20Transfer(chain[txHash], TreasuryAddress,
                                             expectedUsdm, "USDm")
       IN  IF ~skip /\ ~isVerified
           THEN /\ response' = [op |-> "purchaseAirtime",
                                result |-> "BadRequest"]
                /\ UNCHANGED vendorLog
           ELSE /\ vendorLog' = vendorLog \cup
                       {VendorCall("purchaseAirtime", nPurchases + 1, 1, txHash,
                                   expectedUsdm * NairaPerUnit,
                                   IF skip THEN "skipped"
                                   ELSE IF isVerified THEN "true"
                                   ELSE "false")}
                /\ response' = [op |-> "purchaseAirtime",
                                result |-> purchaseStatus(outcome)]
    /\ UNCHANGED <<chain, nodeEnv, rows, mon, nCallbacks, vin, vout>>

(***************************************************************************)
(* PaymentsController.handleNellobytesCallback                             *)
(***************************************************************************)
StatusCodes == {"200", "100", "other"}
OrderStatuses == {"ORDER_COMPLETED", "ORDER_RECEIVED", "ORDER_FAILED",
                  "ORDER_CANCELLED", "ORDER_ONHOLD"}

\* orderStatus?.includes('FAILED') || orderStatus?.includes('CANCELLED')
IncludesFailedOrCancelled(orderStatus) ==
    orderStatus \in {"ORDER_FAILED", "ORDER_CANCELLED"}

\* the mapping of the vendor's codes to a record status
CallbackStatus(statusCode, orderStatus) ==
    IF statusCode = "200" \/ orderStatus = "ORDER_COMPLETED" THEN "success"
    ELSE IF statusCode = "100" \/ orderStatus = "ORDER_RECEIVED"
         THEN "pending"
    ELSE IF IncludesFailedOrCancelled(orderStatus) THEN "failed"
    ELSE "pending"

\* the request ids the vendor has received
RequestIds == {c.RequestID : c \in vendorLog}

\* the requestid of a callback payload: the id the vendor received, which
\* it echoes, or the hash itself, which any client that knows it can post
\* (the route has no guard)
CallbackIds == Hashes \cup {sanitizeRequestId(h) : h \in Hashes}

handleNellobytesCallback(requestId, statusCode, orderStatus) ==
    /\ nRequests < MaxRequests
    /\ nRequests' = nRequests + 1
    /\ nCallbacks < MaxCallbacks
    /\ nCallbacks' = nCallbacks + 1
    /\ sanitizeRequestId(requestId) \in RequestIds
    /\ IF ~findByTxHash(rows, requestId)
       THEN /\ response' = [op |-> "callback", result |-> "not_found",
                            requestId |-> requestId]
            /\ UNCHANGED rows
       ELSE LET status == CallbackStatus(statusCode, orderStatus)
            IN  /\ rows' = updateAirtimeCallback(rows, requestId, status)
                /\ response' = [op |-> "callback", result |-> status,
                                requestId |-> requestId]
    /\ UNCHANGED <<chain, nodeEnv, mon, vendorLog, nPurchases, vin, vout>>

(***************************************************************************)
(* The specification of the engine after broadcast.                        *)
(***************************************************************************)
Next ==
    \/ \E dto \in Dtos : recordTransaction(dto)
    \/ \E m \in DOMAIN mon : MonitorReceipt(m)
    \/ \E m \in DOMAIN mon : MonitorVerify(m)
    \/ \E m \in DOMAIN mon : MonitorVendor(m)
    \/ \E h \in Hashes, e \in DtoAmounts, skipFlag \in BOOLEAN,
          outcome \in VendorOutcomes : purchaseAirtime(h, e, skipFlag, outcome)
    \/ \E id \in CallbackIds, sc \in StatusCodes, os \in OrderStatuses :
          handleNellobytesCallback(id, sc, os)

Spec == Init /\ [][Next]_vars

\* a step of the monitor m: the settling of the promise it awaits
MonitorStep(m) ==
    /\ m \in DOMAIN mon
    /\ \/ MonitorReceipt(m)
       \/ MonitorVerify(m)
       \/ MonitorVendor(m)

\* every promise a monitor awaits settles: waitForTransaction within its
\* 60 s timeout, the receipt fetch and the vendor's HTTP call by answer or
\* error.  Nothing makes a request or a callback arrive.
Fairness == \A m \in 1..MaxMonitors : WF_vars(MonitorStep(m))

SpecFair == Spec /\ Fairness

TypeOK ==
    /\ \A i \in DOMAIN rows : rows[i].status \in Statuses
    /\ Len(rows) = Len(mon)
    /\ Len(mon) <= MaxMonitors

(***************************************************************************)
(* The specification of verifyERC20Transfer as a pure function: Init draws *)
(* a receipt and the expectation, the one action applies the function.     *)
(***************************************************************************)
\* the logs a receipt may carry: emitted by either token contract (as the
\* node reports the address, lower case or checksummed), with either topic,
\* to either destination, of a value just below one unit, one unit, or two
LogValues == {WeiPerUnit - 1, WeiPerUnit, 2 * WeiPerUnit}

LogEvents ==
    [address : {"0xusdm", "0xNGNm"},
     topic0 : Topics,
     to : {"0xtreasury", "0xother"},
     value : LogValues]

RECURSIVE SeqsUpTo(_, _)
SeqsUpTo(S, n) ==
    IF n = 0 THEN { << >> }
    ELSE LET shorter == SeqsUpTo(S, n - 1)
         IN  shorter \cup { Append(q, x) : q \in shorter, x \in S }

VerifyInputs ==
    [status : {"success", "reverted"},
     logs : SeqsUpTo(LogEvents, MaxLogs),
     expectedTo : {"0xTreasury", "0xOther"},
     expectedAmount : DtoAmounts,
     token : Tokens]

InitVerify ==
    /\ vin \in VerifyInputs
    /\ vout = "none"
    /\ chain = [h \in Hashes |-> CHOOSE r \in Receipts : r.status = "success"]
    /\ nodeEnv = "production"
    /\ rows = << >>
    /\ mon = << >>
    /\ vendorLog = {}
    /\ response = [op |-> "none", result |-> "none"]
    /\ nRequests = 0
    /\ nPurchases = 0
    /\ nCallbacks = 0

Verify ==
    /\ vout = "none"
    /\ vout' = IF verifyERC20Transfer([status |-> vin.status,
                                       logs |-> vin.logs],
                                      vin.expectedTo, vin.expectedAmount,
                                      vin.token)
               THEN "true" ELSE "false"
    /\ UNCHANGED <<vin, chain, nodeEnv, rows, mon, vendorLog, response,
                   nRequests, nPurchases, nCallbacks>>

NextVerify == Verify

SpecVerify == InitVerify /\ [][NextVerify]_vars

(***************************************************************************)
(* NellobytesService.buyAirtime as a function of its argument and of what  *)
(* the clock, Math.random and the vendor answer.  The specification asks   *)
(* twice, the second time with another request id, and keeps both answers. *)
(***************************************************************************)
\* the smallest amount buyAirtime accepts
MinAirtimeAmount == 50

\* NELLOBYTES_NETWORKS, in the order of its keys
NetworkNames == << "MTN", "GLO", "AIRTEL", "9MOBILE" >>

NELLOBYTES_NETWORKS(name) ==
    CASE name = "MTN"     -> "01"
      [] name = "GLO"     -> "02"
      [] name = "AIRTEL"  -> "04"
      [] name = "9MOBILE" -> "03"
      [] OTHER            -> "undefined"

\* Object.values(NELLOBYTES_NETWORKS)
NetworkCodes == {NELLOBYTES_NETWORKS(NetworkNames[k]) : k \in DOMAIN NetworkNames}

\* NIGERIAN_NETWORK_PREFIXES
NIGERIAN_NETWORK_PREFIXES(name) ==
    CASE name = "MTN" ->
             {"0803", "0806", "0703", "0903", "0906", "0810", "0813", "0814",
              "0816", "0706", "07025", "07026", "0704"}
      [] name = "GLO" -> {"0805", "0807", "0705", "0815", "0811", "0905"}
      [] name = "AIRTEL" ->
             {"0802", "0808", "0708", "0812", "0701", "0902", "0907", "0901",
              "0904", "0912"}
      [] name = "9MOBILE" -> {"0809", "0818", "0817", "0909", "0908"}
      [] OTHER -> {}

LowerLetters == "abcdefghijklmnopqrstuvwxyz"
UpperLetters == "ABCDEFGHIJKLMNOPQRSTUVWXYZ"
Digits == {"0", "1", "2", "3", "4", "5", "6", "7", "8", "9"}

\* one character of String.prototype.toUpperCase
UpperChar(c) ==
    IF \E i \in 1..Len(LowerLetters) : SubSeq(LowerLetters, i, i) = c
    THEN LET i == CHOOSE j \in 1..Len(LowerLetters) :
                      SubSeq(LowerLetters, j, j) = c
         IN  SubSeq(UpperLetters, i, i)
    ELSE c

RECURSIVE toUpperCase(_)
toUpperCase(s) ==
    IF Len(s) = 0 THEN ""
    ELSE UpperChar(SubSeq(s, 1, 1)) \o toUpperCase(SubSeq(s, 2, Len(s)))

\* String.prototype.trim
RECURSIVE trim(_)
trim(s) ==
    IF Len(s) = 0 THEN s
    ELSE IF SubSeq(s, 1, 1) = " " THEN trim(SubSeq(s, 2, Len(s)))
    ELSE IF SubSeq(s, Len(s), Len(s)) = " "
         THEN trim(SubSeq(s, 1, Len(s) - 1))
    ELSE s

\* /^\d+$/.test(s)
AllDigits(s) ==
    /\ Len(s) > 0
    /\ \A i \in 1..Len(s) : SubSeq(s, i, i) \in Digits

\* String.prototype.includes
includes(s, part) ==
    \E i \in 1..(Len(s) - Len(part) + 1) :
        SubSeq(s, i, i + Len(part) - 1) = part

\* String.prototype.substring(0, n)
substring0(s, n) == IF Len(s) <= n THEN s ELSE SubSeq(s, 1, n)

\* String.prototype.replace(/\D/g, '')
RECURSIVE stripNonDigits(_)
stripNonDigits(s) ==
    IF Len(s) = 0 THEN ""
    ELSE (IF SubSeq(s, 1, 1) \in Digits THEN SubSeq(s, 1, 1) ELSE "")
         \o stripNonDigits(SubSeq(s, 2, Len(s)))

\* what getNetworkCode gives when it throws BadRequestException
Unsupported == "Unsupported network"

\* getNetworkCode: a numeric code, padded to two digits, is returned when it
\* is one of the codes; else the name is looked up, then matched loosely
getNetworkCode(network) ==
    LET normalized == trim(toUpperCase(network))
        maybeCode == IF AllDigits(normalized) /\ Len(normalized) = 1
                     THEN "0" \o normalized ELSE normalized
    IN  IF AllDigits(normalized) /\ maybeCode \in NetworkCodes THEN maybeCode
        ELSE IF NELLOBYTES_NETWORKS(normalized) # "undefined"
             THEN NELLOBYTES_NETWORKS(normalized)
        ELSE IF includes(normalized, "MTN") THEN NELLOBYTES_NETWORKS("MTN")
        ELSE IF includes(normalized, "GLO") THEN NELLOBYTES_NETWORKS("GLO")
        ELSE IF includes(normalized, "AIRTEL")
             THEN NELLOBYTES_NETWORKS("AIRTEL")
        ELSE IF includes(normalized, "9MOBILE")
                \/ includes(normalized, "ETISALAT")
             THEN NELLOBYTES_NETWORKS("9MOBILE")
        ELSE Unsupported

\* detectNetwork: the first network, in the order of the table, one of
\* whose prefixes is the first four or the first five digits; else null
detectNetwork(phoneNumber) ==
    LET digits == stripNonDigits(phoneNumber)
        normalized == IF substring0(digits, 3) = "234"
                      THEN "0" \o SubSeq(digits, 4, Len(digits))
                      ELSE digits
        prefix == substring0(normalized, 4)
        prefix5 == substring0(normalized, 5)
        hit(k) == \/ prefix \in NIGERIAN_NETWORK_PREFIXES(NetworkNames[k])
                  \/ prefix5 \in NIGERIAN_NETWORK_PREFIXES(NetworkNames[k])
    IN  IF \E k \in DOMAIN NetworkNames : hit(k)
        THEN NetworkNames[CHOOSE k \in DOMAIN NetworkNames :
                              hit(k) /\ \A j \in 1..(k - 1) : ~hit(j)]
        ELSE "null"

\* generateRequestId: NB-<Date.now()>-<floor(random * 1000)>
generateRequestId(now, random) == "NB-" \o now \o "-" \o random

\* the amount test that has no upper limit
AmountRejected_NoCeiling(amount) == amount < MinAirtimeAmount

\* data.amount < 50 || data.amount > 200000
AmountRejected(amount) ==
    amount < MinAirtimeAmount \/ amount > MaxAirtimeAmount

\* the network code buyAirtime settles on, "null" when there is none
ResolveNetwork(mobile_network, mobile_number) ==
    LET given == IF mobile_network # ""
                    /\ getNetworkCode(mobile_network) # Unsupported
                 THEN getNetworkCode(mobile_network) ELSE "null"
    IN  IF given # "null" THEN given
        ELSE IF detectNetwork(mobile_number) # "null"
             THEN NELLOBYTES_NETWORKS(detectNetwork(mobile_number))
        ELSE "null"

NoRequest == [sent |-> FALSE]

\* buyAirtime: what it throws, the request it sends, and what it returns
buyAirtime(data, now, random, answer) ==
    LET networkCode == ResolveNetwork(data.mobile_network, data.mobile_number)
    IN  IF AmountRejected(data.amount) \/ networkCode = "null"
        THEN [thrown |-> "BadRequestException", request |-> NoRequest,
              returned |-> "none"]
        ELSE [thrown |-> IF answer = "threw"
                         THEN "InternalServerErrorException" ELSE "none",
              request |->
                  [sent |-> TRUE,
                   MobileNetwork |-> networkCode,
                   Amount |-> data.amount,
                   MobileNumber |-> data.mobile_number,
                   RequestID |-> sanitizeRequestId(
                       IF data.request_id # "" THEN data.request_id
                       ELSE generateRequestId(now, random))],
              returned |-> IF answer = "threw" THEN "none" ELSE answer]

\* a hash that ends as H1 does
H3 == "0x3333333333333333333333333333333333333333333311111111111111111aAa"

BuyAmounts ==
    {MinAirtimeAmount - 1, MinAirtimeAmount, MaxAirtimeAmount,
     MaxAirtimeAmount + 1}

BuyNetworks == {"", "mtn", " Airtel ", "4", "9", "etisalat ng", "VODAFONE"}

BuyNumbers == {"08031234567", "+2348051234567", "07025123456", "09990000000"}

BuyRequestIds == {H1, H2, H3, "", "order-1"}

Randoms == {"7", "42"}

BuyInputs ==
    [status : {"ask"},
     data : [mobile_network : BuyNetworks, amount : BuyAmounts,
             mobile_number : BuyNumbers, request_id : BuyRequestIds],
     again : BuyRequestIds,
     now : {"1700000000000"},
     random : Randoms,
     randomAgain : Randoms,
     answer : VendorOutcomes]

InitVendor ==
    /\ vin \in BuyInputs
    /\ vout = << >>
    /\ chain = [h \in Hashes |-> CHOOSE r \in Receipts : r.status = "success"]
    /\ nodeEnv = "production"
    /\ rows = << >>
    /\ mon = << >>
    /\ vendorLog = {}
    /\ response = [op |-> "none", result |-> "none"]
    /\ nRequests = 0
    /\ nPurchases = 0
    /\ nCallbacks = 0

BuyAirtime ==
    /\ vout = << >>
    /\ vout' = << buyAirtime(vin.data, vin.now, vin.random, vin.answer),
                  buyAirtime([vin.data EXCEPT !.request_id = vin.again],
                             vin.now, vin.randomAgain, vin.answer) >>
    /\ UNCHANGED <<vin, chain, nodeEnv, rows, mon, vendorLog, response,
                   nRequests, nPurchases, nCallbacks>>

NextVendor == BuyAirtime

SpecVendor == InitVendor /\ [][NextVendor]_vars

(***************************************************************************)
(* Composition: PaymentsService.parsePaymentIntentDirect and the two       *)
(* builders it dispatches to, buildTransferResponse and                    *)
(* handleAirtimeIntent, as functions of the intent, the sender address and *)
(* what the collaborators answer (the identity lookup, the Mento quotes,   *)
(* the allowance read, the route optimizer).  A decimal string is          *)
(* represented by the number of wei it denotes.                            *)
(***************************************************************************)
\* AGENT_CONFIG.maxTransactionAmount
maxTransactionAmount == 1000
\* AGENT_CONFIG.confirmationThreshold
confirmationThreshold == 100
\* the static NGN per USD rate of the limit check and of the fallback price
StaticRate == 1500
\* the approval buildTransferResponse asks for, '1000000.0' tokens
ApprovalAmount == 1000000
\* the slippage margin, 1.01, as a percentage
SlippagePercent == 101

\* celoService.getBrokerAddress()
BrokerAddress == "0xBroker"

\* /^0x[a-fA-F0-9]{40}$/.test(address)
isValidAddress(address) ==
    address \in {"0xPayer", "0xPAYER", "0xOther", "0xTreasury"}

\* Number.prototype.toFixed on the quotient num / den of two wei counts:
\* rounding to the last digit kept, here the wei
toFixed(num, den) ==
    (num \div den) + (IF 2 * (num % den) >= den THEN 1 ELSE 0)

\* what a builder returns or throws
NoTx == [kind |-> "none"]

Rejected(exception, reason, calls) ==
    [result |-> exception, reason |-> reason, calls |-> calls]

\* buildPaymentTransaction that always sends the default token
buildPaymentTransaction_DefaultToken(to, amountInWei, token) ==
    [kind |-> "transfer", contract |-> CELO_TOKENS("USDm"), to |-> to,
     amountInWei |-> amountInWei]

\* celoService.buildPaymentTransaction(to, amount, token), amount in wei:
\* a value transfer for CELO, an ERC-20 transfer(to, amountInWei) otherwise
buildPaymentTransaction(to, amountInWei, token) ==
    [kind |-> "transfer", contract |-> CELO_TOKENS(token), to |-> to,
     amountInWei |-> amountInWei]

\* celoService.buildApproveTransaction(token, spender, amount)
buildApproveTransaction(token, spender, amount) ==
    [kind |-> "approve", contract |-> CELO_TOKENS(token),
     spender |-> spender, amountWei |-> parseUnits(amount)]

\* mentoService.buildSwapTransaction(fromToken, toToken, amountOut,
\* maxAmountIn): the broker's swapOut, amounts in wei
buildSwapTransaction(fromToken, toToken, amountOutWei, maxAmountInWei) ==
    [kind |-> "swap", contract |-> BrokerAddress,
     fromAddress |-> CELO_TOKENS(fromToken),
     toAddress |-> CELO_TOKENS(toToken),
     amountOutWei |-> amountOutWei, maxAmountInWei |-> maxAmountInWei]

\* what a quote source answers: an amount in wei, or it throws
Quoted(value) == [ok |-> TRUE, value |-> value]
NoQuote == [ok |-> FALSE, value |-> 0]

\* mentoService.getAmountInQuote(fromToken, toToken, amountOut): it throws
\* for the native token and when the SDK does; else the amount in, in wei,
\* at the rate the venue gives (rate.value, in halves of the amount out)
getAmountInQuote(fromToken, toToken, amountOut, rate) ==
    IF CELO_TOKENS(fromToken) = "native" \/ CELO_TOKENS(toToken) = "native"
    THEN NoQuote
    ELSE IF ~rate.ok THEN NoQuote
    ELSE Quoted((parseUnits(amountOut) * rate.value) \div 2)

(***************************************************************************)
(* RouteOptimizerService over MentoService.getSwapQuote.  A price and an    *)
(* amount are fractions num/den with den > 0, so that a rate such as 1/1520 *)
(* is kept as it is.  sdk is what mento.getAmountOut answers: sdk.direct    *)
(* for the pair itself, sdk.hop1[i] and sdk.hop2[i] for the two hops        *)
(* through the intermediate i, each NoQuote (it throws) or Quoted(rate).    *)
(***************************************************************************)
Rate(num, den) == [num |-> num, den |-> den]

\* parseFloat(x) * y
Times(x, y) == Rate(x.num * y.num, x.den * y.den)

\* x < y, by the whole parts and then the remainders, so that no product
\* leaves the range of TLC's integers
Below(x, y) ==
    LET xw == x.num \div x.den
        yw == y.num \div y.den
    IN  \/ xw < yw
        \/ xw = yw /\ (x.num % x.den) * y.den < (y.num % y.den) * x.den

\* INTERMEDIATE_TOKENS, in the order the loop visits them
INTERMEDIATE_TOKENS == << "USDm", "EURm", "BRLm", "KESm", "NGNm" >>

IntermediateSet == {INTERMEDIATE_TOKENS[k] : k \in DOMAIN INTERMEDIATE_TOKENS}

\* the rate getMockQuote applies: its table, and 1 for any other pair
MockRate(from, to) ==
    CASE from = "USDm" /\ to = "NGNm" -> Rate(1520, 1)
      [] from = "NGNm" /\ to = "USDm" -> Rate(1, 1520)
      [] from = "USDm" /\ to = "KESm" -> Rate(132, 1)
      [] from = "KESm" /\ to = "USDm" -> Rate(1, 132)
      [] from = "USDm" /\ to = "BRLm" -> Rate(58, 10)
      [] from = "BRLm" /\ to = "USDm" -> Rate(10, 58)
      [] from = "EURm" /\ to = "NGNm" -> Rate(1680, 1)
      [] from = "NGNm" /\ to = "EURm" -> Rate(1, 1680)
      [] OTHER -> Rate(1, 1)

\* mentoService.getSwapQuote(fromToken, toToken, amountIn), the cache left
\* out: it throws for the native token; it returns the SDK's rate when the
\* SDK answers, and getMockQuote's when the SDK throws
getSwapQuote(fromToken, toToken, answer) ==
    IF CELO_TOKENS(fromToken) = "native" \/ CELO_TOKENS(toToken) = "native"
    THEN [ok |-> FALSE, price |-> Rate(0, 1), source |-> "none"]
    ELSE IF answer.ok
    THEN [ok |-> TRUE, price |-> Rate(answer.value, 1),
          source |-> "mento-sdk-v1"]
    ELSE [ok |-> TRUE, price |-> MockRate(fromToken, toToken),
          source |-> "mock-fallback"]

\* a RouteQuote
RouteQuote(path, amountOut, price, source, hops) ==
    [path |-> path, amountOut |-> amountOut, price |-> price,
     source |-> source, hops |-> hops]

\* getDirectQuote: the routes the direct pair gives, none when the quote
\* throws
getDirectQuote(fromToken, toToken, amountIn, sdk) ==
    LET quote == getSwapQuote(fromToken, toToken, sdk.direct)
    IN  IF ~quote.ok THEN << >>
        ELSE << RouteQuote(<< fromToken, toToken >>,
                           Times(amountIn, quote.price), quote.price,
                           quote.source, 1) >>

\* the loop's two `continue`s, with the test of the endpoints left out
Skipped_EndpointsAllowed(intermediate, fromToken, toToken) ==
    fromToken = "CELO" \/ toToken = "CELO"

\* the loop's two `continue`s
Skipped(intermediate, fromToken, toToken) ==
    \/ intermediate = fromToken \/ intermediate = toToken
    \/ fromToken = "CELO" \/ toToken = "CELO"

\* getMultiHopQuotes from the k-th intermediate on: a route for each
\* intermediate that is not skipped and whose two hops are both quoted
RECURSIVE getMultiHopQuotes(_, _, _, _, _)
getMultiHopQuotes(fromToken, toToken, amountIn, sdk, k) ==
    IF k > Len(INTERMEDIATE_TOKENS) THEN << >>
    ELSE
    LET intermediate == INTERMEDIATE_TOKENS[k]
        rest == getMultiHopQuotes(fromToken, toToken, amountIn, sdk, k + 1)
        hop1 == getSwapQuote(fromToken, intermediate, sdk.hop1[intermediate])
        hop2 == getSwapQuote(intermediate, toToken, sdk.hop2[intermediate])
        effectivePrice == Times(hop1.price, hop2.price)
    IN  IF Skipped(intermediate, fromToken, toToken) THEN rest
        ELSE IF ~hop1.ok \/ ~hop2.ok THEN rest
        ELSE << RouteQuote(<< fromToken, intermediate, toToken >>,
                           Times(amountIn, effectivePrice), effectivePrice,
                           "mento-multihop", 2) >> \o rest

\* the place of r in a sequence sorted by falling amountOut, were equal
\* amounts put before the ones already there
Place_BeforeEqual(sorted, r) ==
    LET lower == {i \in 1..Len(sorted) :
                    ~Below(r.amountOut, sorted[i].amountOut)}
    IN  IF lower = {} THEN Len(sorted) + 1
        ELSE CHOOSE i \in lower : \A j \in lower : i <= j

\* the place of r in a sequence sorted by falling amountOut: before the
\* first route whose amountOut is lower, so after every route that equals it
Place(sorted, r) ==
    LET lower == {i \in 1..Len(sorted) :
                    Below(sorted[i].amountOut, r.amountOut)}
    IN  IF lower = {} THEN Len(sorted) + 1
        ELSE CHOOSE i \in lower : \A j \in lower : i <= j

\* routes.sort((a, b) => parseFloat(b.amountOut) - parseFloat(a.amountOut)),
\* a stable sort: the first n routes, sorted
RECURSIVE sort(_, _)
sort(routes, n) ==
    IF n = 0 THEN << >>
    ELSE LET sorted == sort(routes, n - 1)
             at == Place(sorted, routes[n])
         IN  SubSeq(sorted, 1, at - 1) \o << routes[n] >>
               \o SubSeq(sorted, at, Len(sorted))

\* findBestRoute without the test for an empty list of routes
findBestRoute_NoCheck(fromToken, toToken, amountIn, sdk) ==
    LET routes == getDirectQuote(fromToken, toToken, amountIn, sdk)
                    \o getMultiHopQuotes(fromToken, toToken, amountIn, sdk, 1)
        sorted == sort(routes, Len(routes))
    IN  [result |-> "routes",
         bestRoute |-> IF Len(routes) = 0 THEN << >> ELSE sorted[1],
         allRoutes |-> sorted]

\* findBestRoute(fromToken, toToken, amountIn)
findBestRoute(fromToken, toToken, amountIn, sdk) ==
    LET routes == getDirectQuote(fromToken, toToken, amountIn, sdk)
                    \o getMultiHopQuotes(fromToken, toToken, amountIn, sdk, 1)
        sorted == sort(routes, Len(routes))
    IN  IF Len(routes) = 0
        THEN [result |-> "Error", bestRoute |-> << >>, allRoutes |-> << >>]
        ELSE [result |-> "routes", bestRoute |-> sorted[1],
              allRoutes |-> sorted]

\* resolveRecipient that asks the identity service about every recipient
resolveRecipient_AlwaysLookup(rawRecipient, lookup) ==
    [ok |-> lookup # "none", address |-> lookup,
     calls |-> << "identity.resolvePhoneNumber" >>]

\* resolveRecipient that returns what it was given when the identity
\* service has no answer
resolveRecipient_Unchecked(rawRecipient, lookup) ==
    IF isValidAddress(rawRecipient)
    THEN [ok |-> TRUE, address |-> rawRecipient, calls |-> << >>]
    ELSE [ok |-> TRUE,
          address |-> IF lookup # "none" THEN lookup ELSE rawRecipient,
          calls |-> << "identity.resolvePhoneNumber" >>]

\* resolveRecipient: an address is returned as it is; anything else goes to
\* identityService.resolvePhoneNumber, whose answer is env.lookup
resolveRecipient(rawRecipient, lookup) ==
    IF isValidAddress(rawRecipient)
    THEN [ok |-> TRUE, address |-> rawRecipient, calls |-> << >>]
    ELSE [ok |-> lookup # "none", address |-> lookup,
          calls |-> << "identity.resolvePhoneNumber" >>]

\* intent.amount > AGENT_CONFIG.confirmationThreshold
RequiresConfirmation(amount) ==
    IF amount > confirmationThreshold THEN "true" ELSE "false"

\* intent.amount > AGENT_CONFIG.maxTransactionAmount, with >= in its place
ExceedsCeiling_AtCeiling(amount) == amount >= maxTransactionAmount

\* intent.amount > AGENT_CONFIG.maxTransactionAmount
ExceedsCeiling(amount) == amount > maxTransactionAmount

\* AllowanceShort that lets an allowance of one wei less pass
AllowanceShort_OffByOne(allowance, sendAmount) == allowance + 1 < sendAmount

\* parseFloat(allowance) < parseFloat(sendAmount); both strings come from
\* formatUnits, and the amounts of the model are far coarser than a double
AllowanceShort(allowance, sendAmount) == allowance < sendAmount

\* IsThirdParty comparing the addresses as they are written
IsThirdParty_CaseSensitive(senderAddress, recipientAddress) ==
    /\ senderAddress # "none"
    /\ recipientAddress # senderAddress

\* senderAddress &&
\* recipientAddress.toLowerCase() !== senderAddress.toLowerCase()
IsThirdParty(senderAddress, recipientAddress) ==
    /\ senderAddress # "none"
    /\ toLowerCase(recipientAddress) # toLowerCase(senderAddress)

\* The locals of buildTransferResponse once the quote is known, l:
\* [intent, senderAddress, recipientAddress, destinationCurrency,
\*  sourceCurrency, sendAmount (wei), calls]

\* swapTx: swapOut of intent.amount for at most sendAmount * 1.01
swapTx(l) ==
    buildSwapTransaction(l.sourceCurrency, l.destinationCurrency,
                         parseUnits(l.intent.amount),
                         toFixed(l.sendAmount * SlippagePercent, 100))

\* transferTx sending the source amount
transferTx_SourceAmount(l) ==
    buildPaymentTransaction(l.recipientAddress, l.sendAmount,
                            l.destinationCurrency)

\* transferTx: the second step of SWAP_THEN_SEND
transferTx(l) ==
    buildPaymentTransaction(l.recipientAddress, parseUnits(l.intent.amount),
                            l.destinationCurrency)

\* a returned plan; requiresConfirmation is "absent" where the returned
\* object has no such field
Plan(l, tag, transaction, nextTransaction, flag, calls) ==
    [result |-> "plan",
     actionRequired |-> tag,
     transaction |-> transaction,
     nextTransaction |-> nextTransaction,
     requiresConfirmation |-> flag,
     recipient |-> l.recipientAddress,
     amount |-> l.intent.amount,
     currency |-> l.destinationCurrency,
     sourceCurrency |-> l.sourceCurrency,
     sendAmount |-> l.sendAmount,
     calls |-> calls]

\* the cross-currency branch, inside the try block
CrossCurrency(l0, env) ==
    LET quote == getAmountInQuote(l0.sourceCurrency, l0.destinationCurrency,
                                  l0.intent.amount, env.rate)
        calls1 == Append(l0.calls, "mento.getAmountInQuote")
    IN  IF ~quote.ok
        THEN Rejected("BadRequest", "Cannot build swap", calls1)
        ELSE
        LET l == [l0 EXCEPT !.sendAmount = quote.value]
            checks == l.senderAddress # "none"
            calls2 == IF checks THEN Append(calls1, "celo.getAllowance")
                      ELSE calls1
        IN  IF checks /\ AllowanceShort(env.allowance, l.sendAmount)
            THEN Plan(l, "APPROVE_REQUIRED",
                      buildApproveTransaction(l.sourceCurrency,
                                              BrokerAddress, ApprovalAmount),
                      NoTx, "absent",
                      Append(calls2, "celo.buildApproveTransaction"))
            ELSE
            LET calls3 == Append(calls2, "mento.buildSwapTransaction")
            IN  IF ~env.swapBuilds
                THEN Rejected("BadRequest", "Cannot build swap", calls3)
                ELSE IF IsThirdParty(l.senderAddress, l.recipientAddress)
                THEN Plan(l, "SWAP_THEN_SEND", swapTx(l), transferTx(l),
                          "absent",
                          Append(calls3, "celo.buildPaymentTransaction"))
                ELSE Plan(l, "none", swapTx(l), NoTx,
                          RequiresConfirmation(l.intent.amount), calls3)

buildTransferResponse(intent, senderAddress, env) ==
    IF intent.recipient = "none"
    THEN Rejected("BadRequest", "recipient", << >>)
    ELSE IF intent.amount = 0 \/ intent.amount <= 0
    THEN Rejected("BadRequest", "amount", << >>)
    ELSE IF ExceedsCeiling(intent.amount)
    THEN Rejected("BadRequest", "limit", << >>)
    ELSE
    LET resolved == resolveRecipient(intent.recipient, env.lookup)
    IN  IF ~resolved.ok
        THEN Rejected("BadRequest", "Unable to resolve recipient",
                      resolved.calls)
        ELSE
        LET destinationCurrency ==
                IF intent.currency = "none" THEN "USDm" ELSE intent.currency
            sourceCurrency ==
                IF intent.sourceCurrency = "none" THEN destinationCurrency
                ELSE intent.sourceCurrency
            l == [intent |-> intent,
                  senderAddress |-> senderAddress,
                  recipientAddress |-> resolved.address,
                  destinationCurrency |-> destinationCurrency,
                  sourceCurrency |-> sourceCurrency,
                  sendAmount |-> parseUnits(intent.amount),
                  calls |-> resolved.calls]
        IN  IF sourceCurrency # destinationCurrency
            THEN CrossCurrency(l, env)
            ELSE Plan(l, "none",
                      buildPaymentTransaction(l.recipientAddress,
                                              l.sendAmount, sourceCurrency),
                      NoTx, RequiresConfirmation(intent.amount),
                      Append(l.calls, "celo.buildPaymentTransaction"))

\* amountInNgn / 1500 > AGENT_CONFIG.maxTransactionAmount: the quotient is
\* above the ceiling when its whole part is, or when its whole part is the
\* ceiling and a remainder is left
EstimatedUsdExceeds(amountInNgn) ==
    LET whole == amountInNgn \div StaticRate
        rest == amountInNgn % StaticRate
    IN  \/ whole > maxTransactionAmount
        \/ whole = maxTransactionAmount /\ rest > 0

\* parseFloat(amountOut).toFixed(2), then parseUnits: an amount in wei
toFixedWei(amountOut) == toFixed(parseUnits(amountOut.num), amountOut.den)

\* the price of the airtime in USDm (wei): the route optimizer's best
\* amount out, else Mento's direct quote, else the static rate; each put
\* through toFixed
airtimePrice(amountInNgn, env) ==
    LET amountIn == Rate(amountInNgn, 1)
        best == findBestRoute("NGNm", "USDm", amountIn, env.sdk)
        quote == getSwapQuote("NGNm", "USDm", env.sdk.direct)
    IN  IF best.result = "routes" THEN toFixedWei(best.bestRoute.amountOut)
        ELSE IF quote.ok THEN toFixedWei(Times(amountIn, quote.price))
        ELSE toFixed(parseUnits(amountInNgn), StaticRate)

\* the collaborators handleAirtimeIntent called for the price
airtimeCalls(amountInNgn, env) ==
    LET best == findBestRoute("NGNm", "USDm", Rate(amountInNgn, 1), env.sdk)
    IN  IF best.result = "routes" THEN << "routeOptimizer.findBestRoute" >>
        ELSE << "routeOptimizer.findBestRoute", "mento.getSwapQuote" >>

handleAirtimeIntent(intent, env) ==
    IF intent.amount = 0
    THEN Rejected("BadRequest", "amount", << >>)
    ELSE IF intent.recipient = "none"
    THEN Rejected("BadRequest", "recipient", << >>)
    ELSE IF EstimatedUsdExceeds(intent.amount)
    THEN Rejected("BadRequest", "limit", << >>)
    ELSE IF env.treasury = "none"
    THEN Rejected("InternalServerError", "Treasury address not configured",
                  airtimeCalls(intent.amount, env))
    ELSE
    LET amountInUsdm == airtimePrice(intent.amount, env)
        calls == Append(airtimeCalls(intent.amount, env),
                        "celo.buildPaymentTransaction")
    IN  \* encodeFunctionData throws for a uint256 below zero
        IF amountInUsdm < 0
        THEN Rejected("InternalServerError", "IntegerOutOfRange", calls)
        ELSE
        [result |-> "plan",
         actionRequired |-> "none",
         transaction |-> buildPaymentTransaction(env.treasury, amountInUsdm,
                                                 "USDm"),
         nextTransaction |-> NoTx,
         requiresConfirmation |-> "absent",
         recipient |-> env.treasury,
         amount |-> intent.amount,
         currency |-> "USDm",
         sourceCurrency |-> "USDm",
         sendAmount |-> amountInUsdm,
         calls |-> calls]

\* parsePaymentIntentDirect: the dispatch on intent.action
parsePaymentIntentDirect(intent, senderAddress, env) ==
    IF intent.action = "buy_airtime" THEN handleAirtimeIntent(intent, env)
    ELSE IF intent.action = "send_payment"
    THEN buildTransferResponse(intent, senderAddress, env)
    ELSE Rejected("BadRequest", "not supported", << >>)

(***************************************************************************)
(* The specification of composition as a pure function: Init draws the     *)
(* intent, the sender and the collaborators' answers, the one action       *)
(* applies parsePaymentIntentDirect.                                       *)
(***************************************************************************)
\* amounts of a transfer intent: missing (0), negative, small, and either
\* side of the confirmation threshold and of the ceiling
TransferAmounts ==
    {0 - 1, 0, 1, confirmationThreshold, confirmationThreshold + 1,
     maxTransactionAmount, maxTransactionAmount + 1}

\* amounts of an airtime intent, in NGN: missing, negative, a usual one,
\* and either side of the ceiling at the static rate
AirtimeAmounts ==
    {0 - 1, 0, maxTransactionAmount,
     maxTransactionAmount * StaticRate,
     maxTransactionAmount * StaticRate + 1,
     (maxTransactionAmount + 1) * StaticRate}

\* the sender is 0xPayer; a recipient is missing, the payer as the sender
\* writes it or in another letter case, a third party, or a phone number
Recipients == {"none", "0xPayer", "0xPAYER", "0xOther", "+2348012345678"}

\* getAmountInQuote's rate, in halves of the amount out: a half, one and a
\* half, and the 1520 of a dollar in naira (the rate of getMockQuote's table)
QuoteRates == {NoQuote, Quoted(1), Quoted(3), Quoted(2 * 1520)}

\* allowances around the required amount, and the one an approval leaves
Allowances(required) ==
    {0, required, parseUnits(ApprovalAmount)}
    \cup (IF required > 0 THEN {required - 1} ELSE {})

\* what mento.getAmountOut answers for a pair: it throws, or a rate
SdkOutcomes == {NoQuote, Quoted(1), Quoted(2)}

\* the SDK answering every pair alike
UniformSdk(o) ==
    [direct |-> o, hop1 |-> [i \in IntermediateSet |-> o],
     hop2 |-> [i \in IntermediateSet |-> o]]

\* the SDK down, or up at one rate, or up for the second hops only
AirtimeSdks ==
    {UniformSdk(o) : o \in SdkOutcomes}
    \cup {[UniformSdk(Quoted(2)) EXCEPT !.direct = NoQuote,
             !.hop1 = [i \in IntermediateSet |-> NoQuote]]}

\* the inputs of a transfer: the intent, the sender, and what the identity
\* lookup, the quote, the swap builder and the allowance read answer
TransferInput(r, a, c, sc, snd, lk, rate, sb, al) ==
    [intent |-> [action |-> "send_payment", recipient |-> r, amount |-> a,
                 currency |-> c, sourceCurrency |-> sc],
     senderAddress |-> snd,
     env |-> [lookup |-> lk, rate |-> rate, swapBuilds |-> sb,
              allowance |-> al, sdk |-> UniformSdk(NoQuote),
              treasury |-> "none"]]

\* the inputs of an airtime purchase (or of an action that is not
\* supported): the intent, and what the Mento SDK and the environment
\* answer
AirtimeInput(act, r, a, sdk, t) ==
    [intent |-> [action |-> act, recipient |-> r, amount |-> a,
                 currency |-> "NGNm", sourceCurrency |-> "none"],
     senderAddress |-> "0xPayer",
     env |-> [lookup |-> "none", rate |-> NoQuote, swapBuilds |-> FALSE,
              allowance |-> 0, sdk |-> sdk, treasury |-> t]]

NoOutput == [result |-> "none"]

InitCompose ==
    /\ \/ \E r \in Recipients, a \in TransferAmounts,
             c \in {"none", "USDm", "NGNm", "CELO"},
             sc \in {"none", "USDm", "NGNm", "CELO"},
             snd \in {"none", "0xPayer"}, lk \in {"none", "0xOther"},
             rate \in QuoteRates, sb \in BOOLEAN :
             \E al \in Allowances((parseUnits(a) * rate.value) \div 2) :
                vin = TransferInput(r, a, c, sc, snd, lk, rate, sb, al)
       \/ \E act \in {"buy_airtime", "check_balance"},
             r \in {"none", "+2348012345678"}, a \in AirtimeAmounts,
             sdk \in AirtimeSdks, t \in {"none", TreasuryAddress} :
             vin = AirtimeInput(act, r, a, sdk, t)
    /\ vout = NoOutput
    /\ chain = [h \in Hashes |-> CHOOSE r \in Receipts : r.status = "success"]
    /\ nodeEnv = "production"
    /\ rows = << >>
    /\ mon = << >>
    /\ vendorLog = {}
    /\ response = [op |-> "none", result |-> "none"]
    /\ nRequests = 0
    /\ nPurchases = 0
    /\ nCallbacks = 0

Compose ==
    /\ vout = NoOutput
    /\ vout' = parsePaymentIntentDirect(vin.intent, vin.senderAddress,
                                        vin.env)
    /\ UNCHANGED <<vin, chain, nodeEnv, rows, mon, vendorLog, response,
                   nRequests, nPurchases, nCallbacks>>

NextCompose == Compose

SpecCompose == InitCompose /\ [][NextCompose]_vars

(***************************************************************************)
(* The two entry points of composition on one input: the specification     *)
(* draws the inputs of SpecCompose, takes the intent as the one the AI     *)
(* service extracted from the message, and applies both.                   *)
(***************************************************************************)
\* parsePaymentIntent after the intent is extracted (and its confidence
\* accepted): the dispatch on intent.action.  dto.senderAddress names the
\* conversation and is not handed to buildTransferResponse, whose second
\* parameter is then undefined; the plan is returned beside the sessionId
parsePaymentIntent(intent, senderAddress, env) ==
    IF intent.action = "buy_airtime" THEN handleAirtimeIntent(intent, env)
    ELSE IF intent.action = "send_payment"
    THEN buildTransferResponse(intent, "none", env)
    ELSE Rejected("BadRequest", "not supported", << >>)

Enter ==
    /\ vout = NoOutput
    /\ vout' = [direct |-> parsePaymentIntentDirect(vin.intent,
                                vin.senderAddress, vin.env),
                parsed |-> parsePaymentIntent(vin.intent, vin.senderAddress,
                                              vin.env)]
    /\ UNCHANGED <<vin, chain, nodeEnv, rows, mon, vendorLog, response,
                   nRequests, nPurchases, nCallbacks>>

NextEntries == Enter

SpecEntries == InitCompose /\ [][NextEntries]_vars

(***************************************************************************)
(* LimitsService: requests that call checkLimits and, when allowed,        *)
(* recordTransaction, interleaved at their awaits.  The table of limits    *)
(* and the requests in flight are the two fields of vout.  An amount of    *)
(* USD is counted in units of 1/1500 USD, the value of one naira at the    *)
(* rate of convertToUSD, so that the conversion is exact; the currencies   *)
(* of the model are USDm and NGNm.  The day does not end during a run: a   *)
(* record is due for its reset only if it was when the run began.          *)
(***************************************************************************)
\* requests in flight at once
MaxLimitRequests == 2

\* TRANSACTION_LIMITS
MAX_AMOUNT_USD == 10000
MAX_NGN == 15000000
DAILY_MAX_USD == 50000
DAILY_MAX_TRANSACTIONS == 100

\* the naira of one USD in convertToUSD's table of rates (1 / 1500)
NgnPerUsd == 1500

\* whole USD in the unit of the model
Usd(n) == n * NgnPerUsd

Wallets == {"0xW1", "0xW2"}

\* findOne returning null
NoRecord == [exists |-> FALSE]

\* a row of the table of limits; stale: last_reset is 24 hours old or more
LimitRecord(count, volume, ngn, stale) ==
    [exists |-> TRUE, daily_tx_count |-> count, daily_volume_usd |-> volume,
     daily_volume_ngn |-> ngn, stale |-> stale]

\* the row limitsRepo.create builds, and the values resetLimits writes
FreshRecord == LimitRecord(0, 0, 0, FALSE)

limitsRepo == vout.limitsRepo
limitCalls == vout.limitCalls

IsNgn(currency) == currency = "NGNm" \/ currency = "NGN"

\* convertToUSD: amount * (rates[currency] || 1)
convertToUSD(amount, currency) ==
    IF currency = "NGNm" \/ currency = "cNGN" THEN amount
    ELSE Usd(amount)

\* checkSingleTransaction: the minimum of 0.01 USD, the maximum of the
\* currency, the maximum in USD
checkSingleTransaction(amount, currency) ==
    LET amountUSD == convertToUSD(amount, currency)
    IN  /\ ~(amountUSD * 100 < Usd(1))
        /\ ~(IsNgn(currency) /\ amount > MAX_NGN)
        /\ ~(amountUSD > Usd(MAX_AMOUNT_USD))

\* the daily checks of checkLimits on the row it holds
WithinDaily(limits, amount, currency) ==
    /\ ~(limits.daily_tx_count >= DAILY_MAX_TRANSACTIONS)
    /\ ~(limits.daily_volume_usd + convertToUSD(amount, currency)
           > Usd(DAILY_MAX_USD))

IdleCall == [pc |-> "idle"]

Call(pc, wallet, amount, currency, limits, allowed) ==
    [pc |-> pc, wallet |-> wallet, amount |-> amount, currency |-> currency,
     limits |-> limits, allowed |-> allowed]

\* the request after checkLimits has the row it decides on: it goes on to
\* recordTransaction when allowed, and ends when not
Decided(c, limits) ==
    IF WithinDaily(limits, c.amount, c.currency)
    THEN [c EXCEPT !.pc = "record", !.limits = limits, !.allowed = "true"]
    ELSE [c EXCEPT !.pc = "done", !.limits = limits, !.allowed = "false"]

\* what a request asks: the wallet, the amount and the currency
LimitInputs ==
    { << "0xW1", 1, "USDm" >>, << "0xW1", NgnPerUsd, "NGNm" >>,
      << "0xW1", MAX_AMOUNT_USD + 1, "USDm" >>, << "0xW2", 1, "USDm" >> }

\* the rows a wallet can have when the run begins: none, a new one, one
\* transaction or one USD short of a limit, and one at both limits whose
\* day is over
InitialRecords ==
    { NoRecord, FreshRecord,
      LimitRecord(DAILY_MAX_TRANSACTIONS - 1, 0, 0, FALSE),
      LimitRecord(1, Usd(DAILY_MAX_USD - 1), 0, FALSE),
      LimitRecord(DAILY_MAX_TRANSACTIONS, Usd(DAILY_MAX_USD), 0, TRUE) }

InitLimits ==
    /\ \E first \in InitialRecords :
          vout = [limitsRepo |-> [w \in Wallets |->
                                     IF w = "0xW1" THEN first ELSE NoRecord],
                  limitCalls |-> [r \in 1..MaxLimitRequests |-> IdleCall]]
    /\ vin = NoInput
    /\ chain = [h \in Hashes |-> CHOOSE r \in Receipts : r.status = "success"]
    /\ nodeEnv = "production"
    /\ rows = << >>
    /\ mon = << >>
    /\ vendorLog = {}
    /\ response = [op |-> "none", result |-> "none"]
    /\ nRequests = 0
    /\ nPurchases = 0
    /\ nCallbacks = 0

LimitsUnchanged ==
    UNCHANGED <<vin, chain, nodeEnv, rows, mon, vendorLog, response,
                nRequests, nPurchases, nCallbacks>>

\* a step of the request r: the table and the request after it
LimitStep(r, repo, call) ==
    /\ vout' = [limitsRepo |-> repo,
                limitCalls |-> [limitCalls EXCEPT ![r] = call]]
    /\ LimitsUnchanged

\* checkLimits up to its first await: the single-transaction checks, then
\* findOne.  The requests are alike, so they arrive in the order of their
\* numbers
CheckLimits(r, wallet, amount, currency) ==
    /\ limitCalls[r].pc = "idle"
    /\ r > 1 => limitCalls[r - 1].pc # "idle"
    /\ LET c == Call("idle", wallet, amount, currency, NoRecord, "none")
           limits == limitsRepo[wallet]
       IN  IF ~checkSingleTransaction(amount, currency)
           THEN LimitStep(r, limitsRepo,
                          [c EXCEPT !.pc = "done", !.allowed = "false"])
           ELSE IF ~limits.exists
           THEN LimitStep(r, limitsRepo, [c EXCEPT !.pc = "create"])
           ELSE IF limits.stale
           THEN LimitStep(r, limitsRepo,
                          [c EXCEPT !.pc = "reset", !.limits = limits])
           ELSE LimitStep(r, limitsRepo, Decided(c, limits))

\* no row was found: save a new one, which is not due for a reset, and
\* decide on it
CheckCreate(r) ==
    /\ limitCalls[r].pc = "create"
    /\ LimitStep(r, [limitsRepo EXCEPT ![limitCalls[r].wallet] = FreshRecord],
                 Decided(limitCalls[r], FreshRecord))

\* resetLimits, the update
CheckReset(r) ==
    /\ limitCalls[r].pc = "reset"
    /\ LimitStep(r, [limitsRepo EXCEPT ![limitCalls[r].wallet] = FreshRecord],
                 [limitCalls[r] EXCEPT !.pc = "reread"])

\* resetLimits, the findOne after the update; checkLimits decides on it
CheckReread(r) ==
    /\ limitCalls[r].pc = "reread"
    /\ LimitStep(r, limitsRepo,
                 Decided(limitCalls[r], limitsRepo[limitCalls[r].wallet]))

\* recordTransaction: findOne, and the error when there is no row
RecordRead(r) ==
    /\ limitCalls[r].pc = "record"
    /\ LET limits == limitsRepo[limitCalls[r].wallet]
       IN  IF ~limits.exists
           THEN LimitStep(r, limitsRepo,
                          [limitCalls[r] EXCEPT !.pc = "done",
                                                !.allowed = "threw"])
           ELSE LimitStep(r, limitsRepo,
                          [limitCalls[r] EXCEPT !.pc = "save",
                                                !.limits = limits])

\* recordTransaction: the row it read, with the transaction added, is saved
RecordSave(r) ==
    /\ limitCalls[r].pc = "save"
    /\ LET c == limitCalls[r]
           saved == [c.limits EXCEPT
                        !.daily_tx_count = @ + 1,
                        !.daily_volume_usd =
                            @ + convertToUSD(c.amount, c.currency),
                        !.daily_volume_ngn =
                            IF IsNgn(c.currency) THEN @ + c.amount ELSE @]
       IN  LimitStep(r, [limitsRepo EXCEPT ![c.wallet] = saved],
                     [c EXCEPT !.pc = "done", !.limits = saved])

NextLimits ==
    \/ \E r \in 1..MaxLimitRequests, input \in LimitInputs :
          CheckLimits(r, input[1], input[2], input[3])
    \/ \E r \in 1..MaxLimitRequests : CheckCreate(r)
    \/ \E r \in 1..MaxLimitRequests : CheckReset(r)
    \/ \E r \in 1..MaxLimitRequests : CheckReread(r)
    \/ \E r \in 1..MaxLimitRequests : RecordRead(r)
    \/ \E r \in 1..MaxLimitRequests : RecordSave(r)

SpecLimits == InitLimits /\ [][NextLimits]_vars

(***************************************************************************)
(* The specification of the route optimizer as a pure function: Init draws *)
(* the pair, the amount and what the SDK answers for the pair and for each *)
(* hop, the one action applies findBestRoute.                              *)
(***************************************************************************)
\* the pairs: a corridor each way, and one from the native token
RoutePairs == {<< "USDm", "NGNm" >>, << "NGNm", "USDm" >>, << "CELO", "USDm" >>}

\* the amounts in, of the source token
RouteAmounts == {1, MaxAmountIn}

\* the intermediates the loop asks the SDK about for a pair
Asked(fromToken, toToken) ==
    IF fromToken = "CELO" \/ toToken = "CELO" THEN {}
    ELSE IntermediateSet \ {fromToken, toToken}

\* the answers of the SDK for the hops: those of the intermediates asked
\* about, and no answer for the others
HopAnswers(asked, answers) ==
    [i \in IntermediateSet |-> IF i \in asked THEN answers[i] ELSE NoQuote]

RouteInput(pair, amountIn, direct, hop1, hop2) ==
    [fromToken |-> pair[1], toToken |-> pair[2], amountIn |-> amountIn,
     sdk |-> [direct |-> direct, hop1 |-> hop1, hop2 |-> hop2]]

InitRoute ==
    /\ \E pair \in RoutePairs, amountIn \in RouteAmounts,
          direct \in SdkOutcomes :
          LET asked == Asked(pair[1], pair[2])
          IN  \E h1 \in [asked -> SdkOutcomes], h2 \in [asked -> SdkOutcomes] :
                 vin = RouteInput(pair, amountIn, direct,
                                  HopAnswers(asked, h1), HopAnswers(asked, h2))
    /\ vout = NoOutput
    /\ chain = [h \in Hashes |-> CHOOSE r \in Receipts : r.status = "success"]
    /\ nodeEnv = "production"
    /\ rows = << >>
    /\ mon = << >>
    /\ vendorLog = {}
    /\ response = [op |-> "none", result |-> "none"]
    /\ nRequests = 0
    /\ nPurchases = 0
    /\ nCallbacks = 0

Route ==
    /\ vout = NoOutput
    /\ vout' = findBestRoute(vin.fromToken, vin.toToken,
                             Rate(vin.amountIn, 1), vin.sdk)
    /\ UNCHANGED <<vin, chain, nodeEnv, rows, mon, vendorLog, response,
                   nRequests, nPurchases, nCallbacks>>

NextRoute == Route

SpecRoute == InitRoute /\ [][NextRoute]_vars

(***************************************************************************)
(* Properties.                                                             *)
(***************************************************************************)
\* the calls of the vendor made by monitors for the hash h
MonitorCalls(h) ==
    {c \in vendorLog : c.via = "monitor" /\ c.request_id = h}

\* the calls of the vendor made by the monitor m
CallsBy(log, m) == {c \in log : c.via = "monitor" /\ c.who = m}

\* the monitors started for the hash h
MonitorsOf(h) == {m \in DOMAIN mon : mon[m].dto.txHash = h}

\* every row of the hash h has the status st
RowsHave(rs, h, st) ==
    \A i \in DOMAIN rs : rs[i].txHash = h => rs[i].status = st

\* the row carries fulfilment metadata
CarriesMetadata(row) == row.provider # "none"

\* fulfilment is due for the row: it goes to the treasury and names the vendor
RowFulfilmentDue(row) ==
    /\ row.toAddress = toLowerCase(TreasuryAddress)
    /\ row.provider = "NELLOBYTES"

\* C1: for any hash, however many times recordTransaction started a monitor
\* for it, the monitors invoke the vendor at most once for that hash.
C1_AtMostOneFulfilment ==
    \A h \in Hashes : Cardinality(MonitorCalls(h)) <= 1

C3_FailedServiceErrorOnce ==
    \A h \in Hashes :
        Cardinality({m \in MonitorsOf(h) :
                        mon[m].vendorResult = "threw"}) <= 1

\* an edge of the status lifecycle, for the row that takes it
LifecycleEdge(row, to) ==
    \/ row.status = "pending" /\ to \in {"success", "failed"}
    \/ /\ row.status = "success"
       /\ CarriesMetadata(row)
       /\ to \in {"success_delivered", "failed_verification",
                  "failed_service_error"}

\* C4: every change of a row's status follows an edge of the lifecycle.
C4_LifecycleEdges ==
    [][\A i \in DOMAIN rows :
          rows'[i].status # rows[i].status
              => LifecycleEdge(rows[i], rows'[i].status)]_vars

\* a terminal status: everything but pending, and but success while
\* fulfilment is due
Terminal(row) ==
    \/ row.status \in {"failed", "success_delivered", "failed_verification",
                       "failed_service_error"}
    \/ row.status = "success" /\ ~RowFulfilmentDue(row)

\* C5: once a row's status is terminal, no step changes it.
C5_TerminalStable ==
    [][\A i \in DOMAIN rows :
          Terminal(rows[i]) => rows'[i].status = rows[i].status]_vars

\* C6: a step in which the wait for the receipt times out leaves the store
\* as it is (the row stays pending).
C6_TimeoutKeepsPending ==
    [][\A m \in DOMAIN mon :
          (mon[m].waitResult = "none" /\ mon'[m].waitResult = "timeout")
              => rows' = rows]_vars

\* C7: the step in which a monitor sees a reverted receipt sets the rows of
\* its hash to failed; that monitor writes nothing else and stops, and no
\* monitor calls the vendor for a hash whose receipt is reverted, whatever
\* metadata the record carries.
C7_RevertedFailsWithoutVendor ==
    /\ [](\A m \in DOMAIN mon :
             mon[m].waitResult = "reverted"
                 => /\ mon[m].pc = "done"
                    /\ mon[m].wrote = << "failed" >>
                    /\ CallsBy(vendorLog, m) = {})
    /\ [](\A h \in Hashes :
             chain[h].status = "reverted" => MonitorCalls(h) = {})
    /\ [][\A m \in DOMAIN mon :
             (mon[m].waitResult = "none" /\ mon'[m].waitResult = "reverted")
                 => RowsHave(rows', mon[m].dto.txHash, "failed")]_vars

\* C7 witness: a monitor of a record that goes to the treasury with vendor
\* metadata has seen a reverted receipt and the row is failed.
C7_Witness ==
    \E m \in DOMAIN mon :
        /\ mon[m].waitResult = "reverted"
        /\ FulfilmentDue(mon[m].dto)
        /\ rows[m].status = "failed"

\* the receipt of the monitor's hash succeeded and it shows transfers of the
\* expected token to the treasury, all of them of less than the amount the
\* record expects
PaidLess(m) ==
    LET dto == mon[m].dto
        logs == chain[dto.txHash].logs
        paying == {k \in DOMAIN logs :
                     /\ logs[k].address = toLowerCase(CELO_TOKENS(dto.currency))
                     /\ logs[k].topic0 = TransferTopic
                     /\ logs[k].to = toLowerCase(TreasuryAddress)}
    IN  /\ FulfilmentDue(dto)
        /\ chain[dto.txHash].status = "success"
        /\ paying # {}
        /\ \A k \in paying : logs[k].value < dto.amount * WeiPerUnit

TransferShown ==
    /\ vin.status = "success"
    /\ \E k \in DOMAIN vin.logs :
          /\ toLowerCase(vin.logs[k].address)
                = toLowerCase(CELO_TOKENS(vin.token))
          /\ vin.logs[k].topic0 = TransferTopic
          /\ vin.logs[k].to = toLowerCase(vin.expectedTo)
          /\ vin.logs[k].value >= vin.expectedAmount * WeiPerUnit

\* C9: verifyERC20Transfer returns true exactly when the receipt succeeded
\* and its log holds a Transfer event of the expected token to the expected
\* address with a value of at least the expected amount.
C9_VerifyExactlyWhenTransferShown ==
    vout # "none" => (vout = "true" <=> TransferShown)

\* C9 witness: the function returned true on a receipt of two logs whose
\* only matching log is the second and pays exactly the expected amount.
C9_Witness ==
    /\ vout = "true"
    /\ Len(vin.logs) = 2
    /\ vin.logs[1].to # toLowerCase(vin.expectedTo)
    /\ vin.logs[2].value = vin.expectedAmount * WeiPerUnit

\* C10: a monitor calls the vendor at most once; the step in which the call
\* settles sets the rows of the hash to success_delivered when it returned
\* and to failed_service_error when it threw; and once the call has settled
\* the monitor makes no further call.
C10_OneVendorCallThenStatus ==
    /\ [](\A m \in DOMAIN mon :
             /\ mon[m].attempts <= 1
             /\ Cardinality(CallsBy(vendorLog, m)) = mon[m].attempts
             /\ mon[m].vendorResult # "none" => mon[m].pc = "done")
    /\ [][\A m \in DOMAIN mon :
             /\ (mon[m].pc = "vendor"
                   /\ mon'[m].vendorResult \notin {"none", "threw"})
                   => RowsHave(rows', mon[m].dto.txHash, "success_delivered")
             /\ (mon[m].pc = "vendor" /\ mon'[m].vendorResult = "threw")
                   => RowsHave(rows', mon[m].dto.txHash,
                               "failed_service_error")
             /\ mon[m].vendorResult # "none"
                   => CallsBy(vendorLog', m) = CallsBy(vendorLog, m)]_vars

\* C10 witness: a monitor's vendor call threw, the row is
\* failed_service_error and the vendor has that one call from the monitor.
C10_Witness ==
    \E m \in DOMAIN mon :
        /\ mon[m].vendorResult = "threw"
        /\ rows[m].status = "failed_service_error"
        /\ Cardinality(CallsBy(vendorLog, m)) = 1

\* the record asks for fulfilment: its destination is the collection
\* address in any letter case and its metadata names the vendor
AsksFulfilment(dto) ==
    /\ dto.toAddress \in {"0xTreasury", "0XTREASURY", "0xtreasury"}
    /\ dto.provider = "NELLOBYTES"

\* C11: a monitor verifies the payment and calls the vendor only for a
\* record that goes to the collection address (in any letter case) and
\* names the vendor; the monitor of any other record that sees a successful
\* receipt sets the rows of its hash to success in that step, writes
\* nothing else, stops, and never calls the vendor.
C11_FulfilmentOnlyWhenDue ==
    /\ [](\A m \in DOMAIN mon :
             ~AsksFulfilment(mon[m].dto)
                 => /\ mon[m].isVerified = "none"
                    /\ CallsBy(vendorLog, m) = {}
                    /\ mon[m].pc \in {"wait", "done"}
                    /\ mon[m].waitResult = "success"
                         => /\ mon[m].pc = "done"
                            /\ mon[m].wrote = << "success" >>)
    /\ [][\A m \in DOMAIN mon :
             (/\ ~AsksFulfilment(mon[m].dto)
              /\ mon[m].waitResult = "none"
              /\ mon'[m].waitResult = "success")
                 => RowsHave(rows', mon[m].dto.txHash, "success")]_vars

\* C11 witness: the monitor of a record sent to the collection address in
\* another letter case has called the vendor, and the monitor of a record
\* without metadata sent to the collection address has stopped at success.
C11_Witness ==
    \E m1, m2 \in DOMAIN mon :
        /\ mon[m1].dto.toAddress = "0XTREASURY"
        /\ CallsBy(vendorLog, m1) # {}
        /\ mon[m2].dto.provider = "none"
        /\ mon[m2].dto.toAddress = "0xTreasury"
        /\ mon[m2].waitResult = "success"
        /\ rows[m2].status = "success"

\* C12: recordTransaction answers while the monitor it started still waits
\* for the receipt and the row is pending; its answer is the acknowledgment
\* or the rejection of an ill-formed hash; and no step of a monitor (a
\* reverted receipt, a failed verification, a vendor error, a monitoring
\* error) changes what the caller was answered.
C12_AcknowledgedDetached ==
    /\ [][Len(mon') > Len(mon)
             => /\ response' = [op |-> "recordTransaction",
                                result |-> "recorded"]
                /\ mon'[Len(mon')].pc = "wait"
                /\ rows'[Len(rows')].status = "pending"]_vars
    /\ [][(\E m \in DOMAIN mon : mon'[m] # mon[m])
             => response' = response]_vars
    /\ [](response.op = "recordTransaction"
             => response.result \in {"recorded", "BadRequest"})

\* C12 witness: the caller of recordTransaction holds the acknowledgment
\* while the monitor's vendor call has thrown and the row is
\* failed_service_error.
C12_Witness ==
    /\ response = [op |-> "recordTransaction", result |-> "recorded"]
    /\ \E m \in DOMAIN mon :
          /\ mon[m].vendorResult = "threw"
          /\ rows[m].status = "failed_service_error"

C14_OtherHashesUntouched ==
    [][\A m \in DOMAIN mon :
          mon'[m] # mon[m]
              => \A i \in DOMAIN rows :
                    rows[i].txHash # mon[m].dto.txHash
                        => rows'[i] = rows[i]]_vars

\* C14 witness: two hashes are registered, the monitor of the second has
\* ended with its row terminal, and the row of the first, registered
\* earlier, is still pending with its monitor waiting.
C14_Witness ==
    /\ Len(mon) = 2
    /\ mon[1].dto.txHash # mon[2].dto.txHash
    /\ mon[2].pc = "done"
    /\ rows[2].status = "success_delivered"
    /\ mon[1].pc = "wait"
    /\ rows[1].status = "pending"

(***************************************************************************)
(* Properties of composition, on the input drawn (vin) and the result      *)
(* (vout).                                                                 *)
(***************************************************************************)
Composed == vout # NoOutput

IsTransferIntent == vin.intent.action = "send_payment"

\* the currencies the intent names, the destination defaulting to USDm and
\* the source to the destination
DestinationCurrency ==
    IF vin.intent.currency = "none" THEN "USDm" ELSE vin.intent.currency

SourceCurrency ==
    IF vin.intent.sourceCurrency = "none" THEN DestinationCurrency
    ELSE vin.intent.sourceCurrency

\* the address the recipient stands for, "none" when it stands for none
ResolvedRecipient ==
    IF vin.intent.recipient \in {"0xPayer", "0xPAYER", "0xOther"}
    THEN vin.intent.recipient
    ELSE IF vin.intent.recipient = "none" THEN "none"
    ELSE vin.env.lookup

\* the intent passes the checks that come before any plan is built
WellFormedTransfer ==
    /\ IsTransferIntent
    /\ ResolvedRecipient # "none"
    /\ vin.intent.amount > 0
    /\ vin.intent.amount <= maxTransactionAmount

\* the venue prices the pair, and the source amount it asks for, in wei
Priced ==
    /\ vin.env.rate.ok
    /\ "CELO" \notin {SourceCurrency, DestinationCurrency}

RequiredSource ==
    (vin.intent.amount * WeiPerUnit * vin.env.rate.value) \div 2

\* a cross-currency transfer of a given payer that the venue prices
CrossCurrencyOfPayer ==
    /\ WellFormedTransfer
    /\ SourceCurrency # DestinationCurrency
    /\ Priced
    /\ vin.senderAddress # "none"

\* C15: for a transfer intent whose source currency is its destination
\* currency, or that names no source currency, the plan returned has one
\* transaction, a transfer of intent.amount of that currency to the
\* resolved recipient, and neither an approval nor a swap nor a second
\* step.
C15_SameCurrencyOneTransfer ==
    (Composed /\ WellFormedTransfer /\ SourceCurrency = DestinationCurrency)
        => /\ vout.result = "plan"
           /\ vout.actionRequired = "none"
           /\ vout.transaction =
                 [kind |-> "transfer",
                  contract |-> CELO_TOKENS(DestinationCurrency),
                  to |-> ResolvedRecipient,
                  amountInWei |-> vin.intent.amount * WeiPerUnit]
           /\ vout.nextTransaction = NoTx

\* C15 witness: a transfer of NGNm that names no source currency, to a
\* phone number the lookup resolves, is planned as one transfer of NGNm.
C15_Witness ==
    /\ Composed
    /\ IsTransferIntent
    /\ vin.intent.currency = "NGNm"
    /\ vin.intent.sourceCurrency = "none"
    /\ vin.intent.recipient = "+2348012345678"
    /\ vout.result = "plan"
    /\ vout.transaction.kind = "transfer"
    /\ vout.transaction.to = "0xOther"

RecipientIsPayer ==
    \/ /\ vin.senderAddress = "0xPayer"
       /\ ResolvedRecipient \in {"0xPayer", "0xPAYER"}

C19_CeilingRejects ==
    Composed =>
        /\ (IsTransferIntent /\ vin.intent.amount > maxTransactionAmount)
              => vout.result = "BadRequest"
        /\ (IsTransferIntent /\ vin.intent.amount <= maxTransactionAmount)
              => ~(vout.result = "BadRequest" /\ vout.reason = "limit")
        /\ (WellFormedTransfer /\ SourceCurrency = DestinationCurrency)
              => vout.result = "plan"
        /\ (/\ vin.intent.action = "buy_airtime"
            /\ vin.intent.amount > maxTransactionAmount * StaticRate)
              => vout.result = "BadRequest"
        /\ (/\ vin.intent.action = "buy_airtime"
            /\ vin.intent.amount <= maxTransactionAmount * StaticRate)
              => ~(vout.result = "BadRequest" /\ vout.reason = "limit")

\* C19 witness: an airtime intent of exactly the ceiling times the static
\* rate is planned, and so is a transfer of exactly the ceiling.
C19_Witness ==
    /\ Composed
    /\ vout.result = "plan"
    /\ \/ /\ vin.intent.action = "buy_airtime"
          /\ vin.intent.amount = maxTransactionAmount * StaticRate
       \/ /\ IsTransferIntent
          /\ vin.intent.amount = maxTransactionAmount

\* C20: every plan of a transfer intent, whatever its tag, carries
\* requiresConfirmation = true exactly when intent.amount is above the
\* confirmation threshold (it is never above the ceiling in a plan).
C20_ConfirmationFlagOnEveryPlan ==
    (Composed /\ IsTransferIntent /\ vout.result = "plan")
        => /\ vin.intent.amount <= maxTransactionAmount
           /\ vout.requiresConfirmation = "true"
                 <=> vin.intent.amount > confirmationThreshold

IsAirtimeIntent == vin.intent.action = "buy_airtime"

\* the amount is above the ceiling, as the guard of the intent's kind
\* measures it
AboveCeiling ==
    \/ IsTransferIntent /\ vin.intent.amount > maxTransactionAmount
    \/ IsAirtimeIntent
         /\ vin.intent.amount > maxTransactionAmount * StaticRate

\* C21: an intent (a transfer or an airtime purchase) with a missing
\* recipient, an amount of zero or less, or an amount above the ceiling is
\* rejected with no collaborator called before the rejection.
C21_RejectedBeforeAnyCall ==
    (/\ Composed
     /\ IsTransferIntent \/ IsAirtimeIntent
     /\ \/ vin.intent.recipient = "none"
        \/ vin.intent.amount <= 0
        \/ AboveCeiling)
        => /\ vout.result = "BadRequest"
           /\ vout.calls = << >>

\* C22: an intent (a transfer or an airtime purchase) whose amount is zero
\* or negative is rejected and no transaction is returned.
C22_NonPositiveAmountRejected ==
    (/\ Composed
     /\ IsTransferIntent \/ IsAirtimeIntent
     /\ vin.intent.amount <= 0)
        => vout.result # "plan"

\* no source prices the pair of the intent: the fixed-output quote of a
\* cross-currency transfer fails, or both the route optimizer and the
\* direct quote have no answer of the SDK for an airtime purchase
Unpriced ==
    \/ /\ IsTransferIntent
       /\ SourceCurrency # DestinationCurrency
       /\ ~Priced
    \/ /\ IsAirtimeIntent
       /\ vin.env.sdk = UniformSdk(NoQuote)

\* C23: when no source prices the pair of an intent with a positive amount,
\* no plan is returned.
C23_UnpricedRejected ==
    (Composed /\ Unpriced /\ vin.intent.amount > 0) => vout.result # "plan"

\* the composition called the collaborator of this name
Called(name) == \E i \in DOMAIN vout.calls : vout.calls[i] = name

\* a transfer intent that reaches resolveRecipient: it names a recipient
\* and an amount above zero and not above the ceiling
ReachesResolution ==
    /\ IsTransferIntent
    /\ vin.intent.recipient # "none"
    /\ vin.intent.amount > 0
    /\ vin.intent.amount <= maxTransactionAmount

\* C24: when the recipient of a transfer has the shape of an address, the
\* identity lookup is not called and the plan, if one is built, names the
\* recipient as it was given.
C24_AddressReturnedUnchanged ==
    (Composed /\ ReachesResolution /\ isValidAddress(vin.intent.recipient))
        => /\ ~Called("identity.resolvePhoneNumber")
           /\ vout.result = "plan" => vout.recipient = vin.intent.recipient

\* an address in capitals is planned for as it was written, though the
\* identity service would have answered with another address
C24_Witness ==
    /\ Composed
    /\ IsTransferIntent
    /\ vin.intent.recipient = "0xPAYER"
    /\ vin.env.lookup = "0xOther"
    /\ vout.result = "plan"
    /\ vout.recipient = "0xPAYER"

\* C25: when the recipient of a transfer has not the shape of an address,
\* the identity lookup is called; if it maps the recipient the plan, if one
\* is built, names the mapped address; if it does not, the transfer is
\* rejected as unresolved and no builder or quote source is called.
C25_LookupOrUnresolved ==
    (Composed /\ ReachesResolution /\ ~isValidAddress(vin.intent.recipient))
        => /\ Called("identity.resolvePhoneNumber")
           /\ vin.env.lookup # "none"
                => (vout.result = "plan" => vout.recipient = vin.env.lookup)
           /\ vin.env.lookup = "none"
                => /\ vout.result = "BadRequest"
                   /\ vout.reason = "Unable to resolve recipient"
                   /\ vout.calls = << "identity.resolvePhoneNumber" >>

\* a phone number the identity service does not know is rejected
C25_Witness ==
    /\ Composed
    /\ IsTransferIntent
    /\ vin.intent.recipient = "+2348012345678"
    /\ vin.env.lookup = "none"
    /\ vout.result = "BadRequest"
    /\ vout.reason = "Unable to resolve recipient"

\* findBestRoute has returned or thrown
Routed == vout # NoOutput

RoutesOf == {vout.allRoutes[i] : i \in DOMAIN vout.allRoutes}

\* two amounts are equal
SameAmount(x, y) == ~Below(x, y) /\ ~Below(y, x)

\* the place of a route in the enumeration: the direct one first, then the
\* intermediates in the order of INTERMEDIATE_TOKENS
EnumIndex(r) ==
    IF r.hops = 1 THEN 0
    ELSE CHOOSE k \in DOMAIN INTERMEDIATE_TOKENS :
            INTERMEDIATE_TOKENS[k] = r.path[2]

\* C26: the best route's amount out is the highest of all routes; of the
\* routes with that amount it has the fewest hops, and of those it is the
\* first that was enumerated.
C26_BestIsMaximum ==
    (Routed /\ vout.result = "routes")
        => /\ vout.bestRoute \in RoutesOf
           /\ \A r \in RoutesOf :
                /\ ~Below(vout.bestRoute.amountOut, r.amountOut)
                /\ SameAmount(vout.bestRoute.amountOut, r.amountOut)
                     => /\ vout.bestRoute.hops <= r.hops
                        /\ vout.bestRoute.hops = r.hops
                             => EnumIndex(vout.bestRoute) <= EnumIndex(r)

\* the direct route and a route of two hops are both there, the second
\* gives strictly more and is the best
C26_Witness ==
    /\ Routed
    /\ vout.result = "routes"
    /\ vout.bestRoute.hops = 2
    /\ \E r \in RoutesOf :
          /\ r.hops = 1
          /\ Below(r.amountOut, vout.bestRoute.amountOut)

\* C27: every route of the result has a path of two or three tokens from
\* the source to the destination, and the middle token of a path of three
\* is an intermediate token other than the source and the destination.
C27_PathShape ==
    (Routed /\ vout.result = "routes")
        => \A r \in RoutesOf :
              /\ Len(r.path) \in {2, 3}
              /\ r.path[1] = vin.fromToken
              /\ r.path[Len(r.path)] = vin.toToken
              /\ Len(r.path) = 3
                   => /\ r.path[2] \in IntermediateSet
                      /\ r.path[2] \notin {vin.fromToken, vin.toToken}

\* a result with a route through an intermediate
C27_Witness ==
    /\ Routed
    /\ vout.result = "routes"
    /\ \E r \in RoutesOf : Len(r.path) = 3

\* the paths findBestRoute asks about: the pair itself, written "direct",
\* and each intermediate the loop does not skip
PathsAsked == {"direct"} \cup Asked(vin.fromToken, vin.toToken)

\* the SDK gave a rate for the path: for the pair, or for both hops
PricedBySdk(path) ==
    /\ "CELO" \notin {vin.fromToken, vin.toToken}
    /\ IF path = "direct" THEN vin.sdk.direct.ok
       ELSE vin.sdk.hop1[path].ok /\ vin.sdk.hop2[path].ok

\* getSwapQuote answered for the path, with the SDK's rate or a mock one
Answered(path) ==
    IF path = "direct"
    THEN getSwapQuote(vin.fromToken, vin.toToken, vin.sdk.direct).ok
    ELSE /\ getSwapQuote(vin.fromToken, path, vin.sdk.hop1[path]).ok
         /\ getSwapQuote(path, vin.toToken, vin.sdk.hop2[path]).ok

PathName(r) == IF r.hops = 1 THEN "direct" ELSE r.path[2]

\* C29: every route of the result, the best one included, is of a path the
\* SDK priced: a path whose quote failed is not among the routes.
C29_UnquotedPathAbsent ==
    (Routed /\ vout.result = "routes")
        => \A r \in RoutesOf : PricedBySdk(PathName(r))

\* the allowance the approval of an APPROVE_REQUIRED plan leaves: approve
\* sets the allowance to the amount of the call
ApprovedAllowance == parseUnits(ApprovalAmount)

\* C30: composing a cross-currency transfer of a given payer again, once
\* the allowance is the one the plan's approval leaves, does not return
\* APPROVE_REQUIRED: the approved amount covers the source amount the quote
\* asks for, for every amount up to the ceiling.
C30_ApprovalCoversRequired ==
    (/\ Composed
     /\ CrossCurrencyOfPayer
     /\ vin.env.allowance = ApprovedAllowance)
        => /\ RequiredSource <= ApprovedAllowance
           /\ ~(vout.result = "plan"
                  /\ vout.actionRequired = "APPROVE_REQUIRED")


(***************************************************************************)
(* The request id of a vendor invocation (SpecVendor).                     *)
(***************************************************************************)
\* buyAirtime has answered both times
Bought == vout # << >>

\* both invocations sent a request to the vendor
BothSent == Bought /\ vout[1].request.sent /\ vout[2].request.sent

C32_MalformedHashLeavesNoTrace ==
    /\ \A i \in DOMAIN rows : rows[i].txHash \notin BadHashes
    /\ \A m \in DOMAIN mon : mon[m].dto.txHash \notin BadHashes

\* a malformed hash was rejected after a well-formed one was recorded
C32_Witness ==
    /\ response.op = "recordTransaction"
    /\ response.result = "BadRequest"
    /\ Len(rows) = 1
    /\ Len(mon) = 1

(***************************************************************************)
(* The validation of buyAirtime (SpecVendor).                              *)
(***************************************************************************)
\* the code the network names of the model stand for, read off the table
\* of the vendor: "none" for the empty name, for the code 9 and for a name
\* that contains no network
NamedCode(name) ==
    CASE name = "mtn"         -> "01"
      [] name = " Airtel "    -> "04"
      [] name = "4"           -> "04"
      [] name = "etisalat ng" -> "03"
      [] OTHER                -> "none"

\* the code of the prefix of the phone numbers of the model: 0803 and 07025
\* are MTN, 0805 is GLO, 0999 belongs to no network
PrefixCode(number) ==
    CASE number = "08031234567"    -> "01"
      [] number = "+2348051234567" -> "02"
      [] number = "07025123456"    -> "01"
      [] OTHER                     -> "none"

\* C33: buyAirtime rejects an amount below 50 or above 200000 with
\* BadRequestException and sends nothing, and it sends a request only with
\* a network code that the given name resolves to or, when the name resolves
\* to none, that the prefix of the phone number stands for.
C33_AmountAndNetworkValidated ==
    Bought =>
        \A k \in 1..2 :
            /\ (vin.data.amount < 50 \/ vin.data.amount > 200000)
                 => /\ vout[k].thrown = "BadRequestException"
                    /\ ~vout[k].request.sent
            /\ vout[k].request.sent
                 => /\ vout[k].request.MobileNetwork \in {"01", "02", "03", "04"}
                    /\ vout[k].request.MobileNetwork =
                         IF NamedCode(vin.data.mobile_network) # "none"
                         THEN NamedCode(vin.data.mobile_network)
                         ELSE PrefixCode(vin.data.mobile_number)
            /\ (/\ NamedCode(vin.data.mobile_network) = "none"
                /\ PrefixCode(vin.data.mobile_number) = "none")
                 => /\ vout[k].thrown = "BadRequestException"
                    /\ ~vout[k].request.sent

\* an amount of 200001 for a network the name resolves is rejected, and
\* nothing is sent
C33_Witness ==
    /\ Bought
    /\ vin.data.amount = MaxAirtimeAmount + 1
    /\ vin.data.mobile_network = "mtn"
    /\ vout[1].thrown = "BadRequestException"
    /\ ~vout[1].request.sent

(***************************************************************************)
(* One payment, one fulfilment; the amount; the vendor's answer; the       *)
(* callback (Spec).                                                        *)
(***************************************************************************)
\* the calls of the vendor made with the hash h, by a monitor or by
\* purchaseAirtime
VendorCallsFor(h) == {c \in vendorLog : c.request_id = h}

\* C34: for any hash, whatever calls of recordTransaction and purchaseAirtime
\* were made with it, the vendor is invoked at most once in total.
C34_OnePaymentOneFulfilment ==
    \A h \in Hashes : Cardinality(VendorCallsFor(h)) <= 1

\* what the receipt of the hash h shows as paid to the treasury, in wei of
\* USDm: the largest Transfer of the token to the treasury in a receipt that
\* succeeded
PaidWei(h) ==
    LET paid == {chain[h].logs[k].value : k \in
                    {j \in DOMAIN chain[h].logs :
                        /\ chain[h].logs[j].address = "0xusdm"
                        /\ chain[h].logs[j].topic0 = TransferTopic
                        /\ chain[h].logs[j].to = "0xtreasury"}}
    IN  IF chain[h].status = "success" /\ paid # {}
        THEN CHOOSE v \in paid : \A w \in paid : w <= v
        ELSE 0

\* C35: whenever the vendor is invoked for a hash after the transfer of the
\* hash was verified, the transfer covers the price of the amount of naira
\* sent to the vendor, at the rate of the engine's quote.
C35_PaymentCoversFulfilment ==
    \A c \in vendorLog :
        c.verified = "true"
            => PaidWei(c.request_id) * NairaPerUnit >= c.amount * WeiPerUnit

\* the statuses by which the vendor reports that it accepted the order
AcceptedByVendor == {"ORDER_RECEIVED", "ORDER_COMPLETED"}

\* C36: a record is success_delivered only if the vendor answered a monitor
\* of its hash with ORDER_RECEIVED or ORDER_COMPLETED; an answer that
\* reports an error without raising never yields success_delivered.
C36_DeliveredOnlyWhenAccepted ==
    \A i \in DOMAIN rows :
        rows[i].status = "success_delivered"
            => \E m \in MonitorsOf(rows[i].txHash) :
                   mon[m].vendorResult \in AcceptedByVendor

\* the last request was a callback that echoes a request id the vendor
\* received
EchoedCallback ==
    /\ response.op = "callback"
    /\ response.requestId \in RequestIds

\* C37: a callback that echoes the request id sent to the vendor for a hash
\* finds the record of that hash and updates it: the callback is not
\* answered as unknown, and every record of the hash holds the callback.
C37_EchoedIdFindsRecord ==
    EchoedCallback =>
        \A h \in Hashes :
            (sanitizeRequestId(h) = response.requestId /\ findByTxHash(rows, h))
                => /\ response.result # "not_found"
                   /\ \A i \in DOMAIN rows :
                          rows[i].txHash = h => rows[i].airtimeCallback

(***************************************************************************)
(* The two entry points (SpecEntries).                                     *)
(***************************************************************************)
\* both entry points have answered
Entered == vout # NoOutput

\* C38: for the same intent and the same sender address, parsePaymentIntent
\* and parsePaymentIntentDirect answer alike: both reject, or both return a
\* plan with the same tag and the same transactions.
C38_EntryPointsAgree ==
    Entered
        => /\ vout.direct.result = vout.parsed.result
           /\ vout.direct.result = "plan"
                => /\ vout.direct.actionRequired = vout.parsed.actionRequired
                   /\ vout.direct.transaction = vout.parsed.transaction
                   /\ vout.direct.nextTransaction
                        = vout.parsed.nextTransaction

(***************************************************************************)
(* The daily limits (SpecLimits).                                          *)
(***************************************************************************)
\* C39: for every wallet, however the requests that call checkLimits and,
\* when allowed, recordTransaction interleave, the recorded daily count
\* never exceeds DAILY_MAX_TRANSACTIONS and the recorded daily volume in
\* USD never exceeds DAILY_MAX_USD.
C39_DailyLimitsHold ==
    \A w \in Wallets :
        limitsRepo[w].exists
            => /\ limitsRepo[w].daily_tx_count <= DAILY_MAX_TRANSACTIONS
               /\ limitsRepo[w].daily_volume_usd <= Usd(DAILY_MAX_USD)

=============================================================================
